---- MODULE Spec2Model ----
(***************************************************************************)
(* Model of pyt.threadutil: the batch / parallel dispatch helpers built on *)
(* multiprocessing.pool.ThreadPool.                                        *)
(*                                                                         *)
(* Each caller thread makes one call of one of the nine public operations. *)
(* The pool is modelled by what ThreadPool does with the submitted tasks:  *)
(* a FIFO task queue, a fixed number of workers, and the result objects    *)
(* (IMapIterator, IMapUnorderedIterator, MapResult) the workers' results   *)
(* are posted to.  Variables named execs, delivered, handling and error    *)
(* are history variables: they record what the handlers were called with.  *)
(***************************************************************************)
EXTENDS Integers, Sequences, FiniteSets, TLC

\* ------------------------------------------------------------------ bounds
\* Longest `items` list given to a dispatch (result-handling) variant.
MaxItems == 3
\* Longest `items` list given to map.
MaxMapItems == 9
\* Largest batch_size.
MaxBatch == 2
\* Worker count of the pool a caller passes explicitly.
ExplicitWorkers == 2

\* --------------------------------------------------------------- constants
\* ThreadPool(8) in get_default_pool.
DefaultPoolWorkers == 8
\* `_default_pool = None`, and `pool=None`.
None == 0
\* The ThreadPool instance a caller constructed itself and passes as `pool`.
ExplicitPool == 1

Callers == {1, 2}
\* Pool instances: the explicit one, and those get_default_pool may create.
PoolIds == {ExplicitPool} \cup {ExplicitPool + c : c \in Callers}

BatchVariants ==
    {"batch_handle", "batch_handle_unordered",
     "batch_handle_with_batch", "batch_handle_with_batch_unordered"}
ItemVariants ==
    {"handle", "handle_unordered", "handle_with_item", "handle_with_item_unordered"}
DispatchVariants == BatchVariants \cup ItemVariants
Variants == DispatchVariants \cup {"map"}

\* PoolMethod with handle iterating pool.imap_unordered, as handle_unordered does.
PoolMethod_HandleUnordered(v) ==
    CASE v \in {"batch_handle", "batch_handle_with_batch"} -> "imap"
      [] v \in {"batch_handle_unordered", "batch_handle_with_batch_unordered",
                "handle", "handle_unordered", "handle_with_item",
                "handle_with_item_unordered"} -> "imap_unordered"
      [] OTHER -> "map"

\* The pool method each operation hands its units to.
PoolMethod(v) ==
    CASE v \in {"batch_handle", "batch_handle_with_batch", "handle"} -> "imap"
      [] v \in {"batch_handle_unordered", "batch_handle_with_batch_unordered",
                "handle_unordered", "handle_with_item",
                "handle_with_item_unordered"} -> "imap_unordered"
      [] OTHER -> "map"

\* The variants that submit partial(_with_item, handler) and call
\* result_handler(*data).
UsesWithItem(v) ==
    v \in {"batch_handle_with_batch", "batch_handle_with_batch_unordered",
           "handle_with_item", "handle_with_item_unordered"}

\* ------------------------------------------------------------ pure helpers
Min(a, b) == IF a < b THEN a ELSE b

RECURSIVE Sum(_)
Sum(s) == IF s = <<>> THEN 0 ELSE Head(s) + Sum(Tail(s))

\* RangeLen of a range that includes its stop: one more step whenever the
\* stop is a multiple of the step, also for an empty list.
RangeLen_Inclusive(stop, step) ==
    IF step > 0 THEN (stop \div step) + 1 ELSE 0

\* RangeLen counting only the full steps: a last, shorter batch is lost.
RangeLen_Floor(stop, step) ==
    IF step > 0 THEN stop \div step ELSE 0

\* len(range(0, stop, step)) for step # 0.
RangeLen(stop, step) ==
    IF step > 0 THEN (stop + step - 1) \div step ELSE 0

\* [items[i: i + batch_size] for i in range(0, len(items), batch_size)]
batch(items, batch_size) ==
    [k \in 1..RangeLen(Len(items), batch_size) |->
        SubSeq(items, (k - 1) * batch_size + 1,
               Min(k * batch_size, Len(items)))]

\* range(0, len(items), 0) raises ValueError: range() arg 3 must not be zero.
BatchRaises(items, batch_size) == batch_size = 0

\* The item handler of the docstring examples.
pow2(x) == x * x

\* The units a call submits: the batches, or the items themselves.
Units(cf) ==
    IF cf.variant \in BatchVariants THEN batch(cf.items, cf.batch_size)
    ELSE cf.items

\* The caller's handler raises on the units that hold an item of cf.bad.
HandlerRaises(cf, unit) ==
    IF cf.variant \in BatchVariants
    THEN \E j \in 1..Len(unit) : unit[j] \in cf.bad
    ELSE unit \in cf.bad

\* The caller's handler never returns on the units that hold an item of
\* cf.hang.
HandlerHangs(cf, unit) ==
    IF cf.variant \in BatchVariants
    THEN \E j \in 1..Len(unit) : unit[j] \in cf.hang
    ELSE unit \in cf.hang

\* The caller's result_handler raises on the results of the units that hold
\* an item of cf.rbad.
ResultHandlerRaises(cf, unit) ==
    IF cf.variant \in BatchVariants
    THEN \E j \in 1..Len(unit) : unit[j] \in cf.rbad
    ELSE unit \in cf.rbad

\* What the caller's handler returns: sum for a batch, pow2 for an item.
HandlerValue(cf, unit) ==
    IF cf.variant \in BatchVariants THEN Sum(unit) ELSE pow2(unit)

\* _with_item calling the handler but returning (item, None).
WithItem_NoResult(cf, item) == <<item, None>>

\* _with_item(handler, item): (item, handler(item)).
WithItem(cf, item) == <<item, HandlerValue(cf, item)>>

\* The function the pool runs on a unit, and the arguments result_handler
\* gets from its return value: result_handler(data) or result_handler(*data).
TaskFunc(cf, unit) ==
    IF UsesWithItem(cf.variant) THEN WithItem(cf, unit) ELSE HandlerValue(cf, unit)

ResultArgs(cf, data) ==
    IF UsesWithItem(cf.variant) THEN data ELSE <<data>>

\* --------------------------------------------------------------- the state
VARIABLES
    pc,             \* [caller -> position in its call]
    cfg,            \* [caller -> the arguments of its call]
    pool,           \* [caller -> the local variable `pool`]
    _default_pool,  \* the module variable: None or a pool
    workers,        \* [pool -> its worker count, 0: not created]
    inqueue,        \* [pool -> FIFO of tasks not yet taken by a worker]
    running,        \* [pool -> the tasks its workers are executing]
    _items,         \* [caller -> the iterator's deque of ready results]
    _index,         \* [caller -> the iterator's count of results taken in]
    _unsorted,      \* [caller -> IMapIterator's results that came early]
    _length,        \* [caller -> the number of tasks of the job]
    mapres,         \* [caller -> MapResult: _number_left, _success, first error]
    execs,          \* [caller -> [unit -> times its handler was invoked]]
    delivered,      \* [caller -> the result_handler invocations, in order]
    handling,       \* [caller -> units whose result_handler is in progress]
    error           \* [caller -> the unit whose failure the call raised, or 0]

\* The state of the other modules: pyt.loggingutil, an autoretry-wrapped
\* method of pyt.mongoutil, and a direct call of batch().
VARIABLES
    _root_name,     \* loggingutil's module variable: NoName (None) or the name
    lpc,            \* [thread -> position in its loggingutil call]
    largs,          \* [thread -> the arguments of its initialize call]
    lres,           \* [thread -> its last finished loggingutil call]
    configured,     \* what initialize did to the loggers (level, handlers)
    assigns,        \* times _root_name was assigned (history)
    rpc,            \* position of the call of the wrapped method
    rcall,          \* the wrapped method called and its argument
    attempts,       \* the invocations of the method so far (history)
    rout,           \* the outcome of the wrapped call
    bcall,          \* a direct call of batch(): arguments, position, result
    mfn,            \* the mongoutil function whose cache the run exercises
    client_cache,   \* lru_cache(3) of get_client: entries, oldest first
    database_cache, \* lru_cache(9) of get_database
    collection_cache, \* lru_cache(27) of get_collection
    since,          \* [function -> [key -> other keys requested since]] (history)
    lastval,        \* [function -> [key -> what its last call returned]] (history)
    mlast,          \* the last finished mongoutil call (history)
    dpc,            \* position of the call of a devutil-decorated method
    dcall,          \* the decorator's and the call's arguments
    dtimes,         \* the local list `times` / what the handler was given
    druns,          \* the invocations of the decorated method (history)
    dprinted,       \* what printer was called with, in order (history)
    dresult         \* what the call returned

threadVars == <<pc, cfg, pool, _default_pool, workers, inqueue, running, _items,
                _index, _unsorted, _length, mapres, execs, delivered, handling, error>>
logVars == <<_root_name, lpc, largs, lres, configured, assigns>>
retryVars == <<rpc, rcall, attempts, rout>>
batchVars == <<bcall>>
mongoVars == <<mfn, client_cache, database_cache, collection_cache, since, lastval, mlast>>
devVars == <<dpc, dcall, dtimes, druns, dprinted, dresult>>

vars == <<pc, cfg, pool, _default_pool, workers, inqueue, running, _items,
          _index, _unsorted, _length, mapres, execs, delivered, handling, error,
          logVars, retryVars, batchVars, mongoVars, devVars>>

\* What a step of a dispatch call, of loggingutil, of a wrapped method, of
\* batch(), of the mongoutil caches and of devutil leaves alone.
notThreadVars == <<logVars, retryVars, batchVars, mongoVars, devVars>>
notLogVars == <<threadVars, retryVars, batchVars, mongoVars, devVars>>
notRetryVars == <<threadVars, logVars, batchVars, mongoVars, devVars>>
notBatchVars == <<threadVars, logVars, retryVars, mongoVars, devVars>>
notMongoVars == <<threadVars, logVars, retryVars, batchVars, devVars>>
notDevVars == <<threadVars, logVars, retryVars, batchVars, mongoVars>>

poolVars == <<workers, inqueue, running>>
iterVars == <<_items, _index, _unsorted, _length, mapres>>
histVars == <<execs, delivered, handling, error>>

\* ------------------------------------------------------------- the inputs
Values == {1, 2}

SeqsUpTo(S, n) == UNION {[1..k -> S] : k \in 0..n}

\* Lists for the dispatch variants; <<1, 2, 3>> is the docstrings' example.
DispatchLists == SeqsUpTo(Values, MaxItems) \cup {<<1, 2, 3>>}

\* Lists for map: all 1 but at most one 2.
MapLists ==
    {[i \in 1..n |-> IF i = k THEN 2 ELSE 1] : n \in 0..MaxMapItems, k \in 0..MaxMapItems}

BadSets == {{}, {2}}

Configs ==
    [variant : BatchVariants, items : DispatchLists, batch_size : 1..MaxBatch,
     bad : BadSets, hang : {{}}, rbad : {{}}, pool : {None, ExplicitPool}]
    \cup
    [variant : ItemVariants, items : DispatchLists, batch_size : {0},
     bad : BadSets, hang : {{}}, rbad : {{}}, pool : {None, ExplicitPool}]
    \cup
    [variant : {"map"}, items : MapLists, batch_size : {0},
     bad : BadSets, hang : {{}}, rbad : {{}}, pool : {None, ExplicitPool}]

NoCall ==
    [variant |-> "none", items |-> <<>>, batch_size |-> 0, bad |-> {}, hang |-> {}, rbad |-> {},
     pool |-> None]

EmptyFn == [x \in {} |-> 0]

\* No call of loggingutil, of a wrapped method or of batch() is made.
NoName == "<None>"
LogThreads == {1, 2}
NoLogCall ==
    [op |-> "none", arg |-> NoName, before |-> NoName, out |-> "none",
     method |-> "none", level |-> "none", logger |-> NoName]
NoInitArgs == [root_name |-> NoName, console |-> FALSE, file |-> FALSE, before |-> NoName]

LogOff ==
    /\ _root_name = NoName
    /\ lpc = [t \in LogThreads |-> "off"]
    /\ largs = [t \in LogThreads |-> NoInitArgs]
    /\ lres = [t \in LogThreads |-> NoLogCall]
    /\ configured = {}
    /\ assigns = 0

NoRetryCall == [method |-> "none", arg |-> 0]
NoOutcome == [kind |-> "none", attempt |-> 0]

RetryOff ==
    /\ rpc = "off"
    /\ rcall = NoRetryCall
    /\ attempts = <<>>
    /\ rout = NoOutcome

NoBatchCall == [items |-> <<>>, batch_size |-> 1, at |-> "off", out |-> <<>>]

BatchOff == bcall = NoBatchCall

\* No mongoutil function is called: the caches are empty.
NoMongoCall == <<>>
NoKeys == [get_client |-> EmptyFn, get_database |-> EmptyFn, get_collection |-> EmptyFn]

MongoOff ==
    /\ mfn = "none"
    /\ client_cache = <<>>
    /\ database_cache = <<>>
    /\ collection_cache = <<>>
    /\ since = NoKeys
    /\ lastval = NoKeys
    /\ mlast = NoMongoCall

\* No devutil-decorated method is called.
NoDevCall ==
    [decorator |-> "none", repeats |-> 0, identifier |-> FALSE, formatter |-> FALSE,
     arg |-> 0]

DevOff ==
    /\ dpc = "off"
    /\ dcall = NoDevCall
    /\ dtimes = <<>>
    /\ druns = <<>>
    /\ dprinted = <<>>
    /\ dresult = <<>>

\* The dispatch state before any call: no default pool, an explicit pool
\* the caller made, nothing queued.
InitPools ==
    /\ cfg = [c \in Callers |-> NoCall]
    /\ pool = [c \in Callers |-> None]
    /\ _default_pool = None
    /\ workers = [p \in PoolIds |-> IF p = ExplicitPool THEN ExplicitWorkers ELSE 0]
    /\ inqueue = [p \in PoolIds |-> <<>>]
    /\ running = [p \in PoolIds |-> {}]
    /\ _items = [c \in Callers |-> <<>>]
    /\ _index = [c \in Callers |-> 0]
    /\ _unsorted = [c \in Callers |-> EmptyFn]
    /\ _length = [c \in Callers |-> 0]
    /\ mapres = [c \in Callers |-> [left |-> 0, ok |-> TRUE, err |-> 0]]
    /\ execs = [c \in Callers |-> EmptyFn]
    /\ delivered = [c \in Callers |-> <<>>]
    /\ handling = [c \in Callers |-> {}]
    /\ error = [c \in Callers |-> 0]

Init ==
    /\ pc = [c \in Callers |-> IF c = 1 THEN "idle" ELSE "off"]
    /\ InitPools
    /\ LogOff /\ RetryOff /\ BatchOff /\ MongoOff /\ DevOff

\* ------------------------------------------------------------ the call
\* A caller thread enters one of the public operations with its arguments:
\* `if pool is None: pool = get_default_pool()`.
CallWith(c, configs) ==
    /\ pc[c] = "idle"
    /\ \E cf \in configs :
        /\ cfg' = [cfg EXCEPT ![c] = cf]
        /\ pool' = [pool EXCEPT ![c] = cf.pool]
        /\ pc' = [pc EXCEPT ![c] = IF cf.pool = None THEN "get_default_pool" ELSE "submit"]
    /\ UNCHANGED <<_default_pool, poolVars, iterVars, histVars>>
    /\ UNCHANGED notThreadVars

Call(c) == CallWith(c, Configs)

\* get_default_pool without its test: a pool is made by every call.
GetDefaultPoolTest_AlwaysCreate(c) ==
    /\ pc[c] = "get_default_pool"
    /\ pc' = [pc EXCEPT ![c] = "create_pool"]
    /\ UNCHANGED <<cfg, pool, _default_pool, poolVars, iterVars, histVars>>
    /\ UNCHANGED notThreadVars

\* get_default_pool: `if _default_pool is None:`
GetDefaultPoolTest(c) ==
    /\ pc[c] = "get_default_pool"
    /\ pc' = [pc EXCEPT ![c] = IF _default_pool = None THEN "create_pool" ELSE "return_pool"]
    /\ UNCHANGED <<cfg, pool, _default_pool, poolVars, iterVars, histVars>>
    /\ UNCHANGED notThreadVars

\* get_default_pool: `_default_pool = ThreadPool(8)`
CreateDefaultPool(c) ==
    /\ pc[c] = "create_pool"
    /\ LET p == CHOOSE q \in PoolIds : q # ExplicitPool /\ workers[q] = 0 /\
                   \A r \in PoolIds : (r # ExplicitPool /\ workers[r] = 0) => q <= r
       IN /\ workers' = [workers EXCEPT ![p] = DefaultPoolWorkers]
          /\ _default_pool' = p
    /\ pc' = [pc EXCEPT ![c] = "return_pool"]
    /\ UNCHANGED <<cfg, pool, inqueue, running, iterVars, histVars>>
    /\ UNCHANGED notThreadVars

\* get_default_pool: `return _default_pool`, assigned to `pool` by a dispatch
\* operation; pool[c] also holds what a direct call of get_default_pool got.
ReturnDefaultPool(c) ==
    /\ pc[c] = "return_pool"
    /\ pool' = [pool EXCEPT ![c] = _default_pool]
    /\ pc' = [pc EXCEPT ![c] =
                 IF cfg[c].variant = "get_default_pool" THEN "returned" ELSE "submit"]
    /\ UNCHANGED <<cfg, _default_pool, poolVars, iterVars, histVars>>
    /\ UNCHANGED notThreadVars

\* ------------------------------------------------------------ submission
\* Pool._map_async: chunksize, extra = divmod(len(iterable), len(self._pool) * 4);
\* if extra: chunksize += 1; if len(iterable) == 0: chunksize = 0.
MapChunkSize(n, nworkers) ==
    IF n = 0 THEN 0
    ELSE (n \div (nworkers * 4)) + (IF n % (nworkers * 4) # 0 THEN 1 ELSE 0)

\* MapResult.__init__: length // chunksize + bool(length % chunksize), 0 when
\* chunksize <= 0.
MapNumberLeft(n, chunksize) ==
    IF chunksize <= 0 THEN 0
    ELSE (n \div chunksize) + (IF n % chunksize # 0 THEN 1 ELSE 0)

\* The tasks of a job, in the order the task handler feeds them to the
\* workers' queue.  A task: the caller (job), its index i in the job, the
\* units `us` it runs the handler on, and how many of them it has run (k).
\* imap and imap_unordered make one task per unit, map one per chunk.
Tasks(c, cf, nworkers) ==
    LET n == Len(Units(cf))
        cs == MapChunkSize(n, nworkers)
    IN IF PoolMethod(cf.variant) = "map"
       THEN [j \in 1..MapNumberLeft(n, cs) |->
                [c |-> c, i |-> j - 1, k |-> 0,
                 us |-> [x \in 1..(Min(j * cs, n) - (j - 1) * cs) |-> (j - 1) * cs + x]]]
       ELSE [j \in 1..n |-> [c |-> c, i |-> j - 1, k |-> 0, us |-> <<j>>]]

\* pool.imap(...) / pool.imap_unordered(...) / pool.map(...): the job's tasks
\* are queued and its result object is set up.  The argument batch(items,
\* batch_size) is evaluated first: its ValueError ends the call before the
\* pool's method is entered.
Submit(c) ==
    /\ pc[c] = "submit"
    /\ LET cf == cfg[c]
           p == pool[c]
           ts == Tasks(c, cf, workers[p])
       IN IF cf.variant \in BatchVariants /\ BatchRaises(cf.items, cf.batch_size)
          THEN /\ pc' = [pc EXCEPT ![c] = "ValueError"]
               /\ UNCHANGED <<inqueue, iterVars, execs>>
          ELSE /\ inqueue' = [inqueue EXCEPT ![p] = @ \o ts]
               /\ _items' = [_items EXCEPT ![c] = <<>>]
               /\ _index' = [_index EXCEPT ![c] = 0]
               /\ _unsorted' = [_unsorted EXCEPT ![c] = EmptyFn]
               /\ _length' = [_length EXCEPT ![c] = Len(ts)]
               /\ mapres' = [mapres EXCEPT ![c] = [left |-> Len(ts), ok |-> TRUE, err |-> 0]]
               /\ execs' = [execs EXCEPT ![c] = [u \in 1..Len(Units(cf)) |-> 0]]
               /\ pc' = [pc EXCEPT ![c] =
                            IF PoolMethod(cf.variant) = "map" THEN "map_get" ELSE "next"]
    /\ UNCHANGED <<cfg, pool, _default_pool, workers, running, delivered, handling, error>>
    /\ UNCHANGED notThreadVars

\* ------------------------------------------------------- the result objects
RECURSIVE Drain(_, _)
\* IMapIterator._set: `while self._index in self._unsorted:` the results moved.
Drain(uns, idx) ==
    IF idx \in DOMAIN uns THEN <<uns[idx]>> \o Drain(uns, idx + 1) ELSE <<>>

\* IMapIterator._set(i, obj): in sequence, append it and what waited for it;
\* early, park it in _unsorted.
IMapIteratorSet(c, i, obj) ==
    IF _index[c] = i
    THEN LET uns == _unsorted[c]
             moved == Drain(uns, i + 1)
         IN /\ _items' = [_items EXCEPT ![c] = Append(@, obj) \o moved]
            /\ _index' = [_index EXCEPT ![c] = i + 1 + Len(moved)]
            /\ _unsorted' = [_unsorted EXCEPT ![c] =
                                [x \in (DOMAIN uns) \ ((i + 1)..(i + Len(moved))) |-> uns[x]]]
            /\ UNCHANGED mapres
    ELSE /\ _unsorted' = [_unsorted EXCEPT ![c] = (i :> obj) @@ @]
         /\ UNCHANGED <<_items, _index, mapres>>

\* IMapUnorderedIterator._set(i, obj): append in arrival order.
IMapUnorderedIteratorSet(c, i, obj) ==
    /\ _items' = [_items EXCEPT ![c] = Append(@, obj)]
    /\ _index' = [_index EXCEPT ![c] = @ + 1]
    /\ UNCHANGED <<_unsorted, mapres>>

\* MapResult._set(i, obj): count the chunk, keep the first exception.
MapResultSet(c, i, obj) ==
    /\ mapres' = [mapres EXCEPT ![c] =
                     [left |-> @.left - 1,
                      ok |-> @.ok /\ obj.ok,
                      err |-> IF ~obj.ok /\ @.ok THEN obj.u ELSE @.err]]
    /\ UNCHANGED <<_items, _index, _unsorted>>

\* Pool._handle_results: cache[job]._set(i, obj).
SetResult(c, i, obj) ==
    CASE PoolMethod(cfg[c].variant) = "imap" -> IMapIteratorSet(c, i, obj)
      [] PoolMethod(cfg[c].variant) = "imap_unordered" -> IMapUnorderedIteratorSet(c, i, obj)
      [] OTHER -> MapResultSet(c, i, obj)

\* --------------------------------------------------------------- the pool
\* A free worker of pool p takes the oldest queued task.
WorkerStart(p) ==
    /\ inqueue[p] # <<>>
    /\ Cardinality(running[p]) < workers[p]
    /\ running' = [running EXCEPT ![p] = @ \cup {Head(inqueue[p])}]
    /\ inqueue' = [inqueue EXCEPT ![p] = Tail(@)]
    /\ UNCHANGED <<pc, cfg, pool, _default_pool, workers, iterVars, histVars>>
    /\ UNCHANGED notThreadVars

\* WorkerRun with a worker that turns an exception of the handler into a
\* successful result holding a default value.
WorkerRun_DefaultOnError(p, t) ==
    /\ t \in running[p]
    /\ ~HandlerHangs(cfg[t.c], Units(cfg[t.c])[t.us[t.k + 1]])
    /\ LET cf == cfg[t.c]
           u == t.us[t.k + 1]
           unit == Units(cf)[u]
           raises == HandlerRaises(cf, unit)
           last == t.k + 1 = Len(t.us)
           obj == IF raises THEN [ok |-> TRUE, val |-> <<IF UsesWithItem(cf.variant) THEN <<unit, 0>> ELSE 0>>, u |-> u]
                  ELSE [ok |-> TRUE, val |-> <<TaskFunc(cf, unit)>>, u |-> u]
       IN /\ execs' = [execs EXCEPT ![t.c][u] = @ + 1]
          /\ IF last
             THEN /\ running' = [running EXCEPT ![p] = @ \ {t}]
                  /\ SetResult(t.c, t.i, obj)
             ELSE /\ running' = [running EXCEPT ![p] = (@ \ {t}) \cup {[t EXCEPT !.k = @ + 1]}]
                  /\ UNCHANGED iterVars
    /\ UNCHANGED <<pc, cfg, pool, _default_pool, workers, inqueue, _length,
                   delivered, handling, error>>
    /\ UNCHANGED notThreadVars

\* The worker running task t calls the handler on the task's next unit:
\* result = (True, func(*args)) or, on an exception, (False, e), which ends
\* the task and is posted to the job's result object; a chunk of map goes on
\* to its next item after an item that did not raise.  A handler that
\* never returns keeps its worker: the task takes no further step.
WorkerRun(p, t) ==
    /\ t \in running[p]
    /\ ~HandlerHangs(cfg[t.c], Units(cfg[t.c])[t.us[t.k + 1]])
    /\ LET cf == cfg[t.c]
           u == t.us[t.k + 1]
           unit == Units(cf)[u]
           raises == HandlerRaises(cf, unit)
           last == t.k + 1 = Len(t.us)
           obj == IF raises THEN [ok |-> FALSE, val |-> <<>>, u |-> u]
                  ELSE [ok |-> TRUE, val |-> <<TaskFunc(cf, unit)>>, u |-> u]
       IN /\ execs' = [execs EXCEPT ![t.c][u] = @ + 1]
          /\ IF raises \/ last
             THEN /\ running' = [running EXCEPT ![p] = @ \ {t}]
                  /\ SetResult(t.c, t.i, obj)
             ELSE /\ running' = [running EXCEPT ![p] = (@ \ {t}) \cup {[t EXCEPT !.k = @ + 1]}]
                  /\ UNCHANGED iterVars
    /\ UNCHANGED <<pc, cfg, pool, _default_pool, workers, inqueue, _length,
                   delivered, handling, error>>
    /\ UNCHANGED notThreadVars

\* ------------------------------------------------------ the caller's loop
\* NextResult with a next() that does not block: with nothing ready the loop
\* ends, whether or not every result was taken in.
NextResult_NoBlock(c) ==
    /\ pc[c] = "next"
    /\ IF _items[c] # <<>>
       THEN LET obj == Head(_items[c])
            IN /\ _items' = [_items EXCEPT ![c] = Tail(@)]
               /\ IF obj.ok
                  THEN /\ delivered' = [delivered EXCEPT ![c] =
                              Append(@, [u |-> obj.u, args |-> ResultArgs(cfg[c], obj.val[1])])]
                       /\ handling' = [handling EXCEPT ![c] = @ \cup {obj.u}]
                       /\ pc' = [pc EXCEPT ![c] = "result_handler"]
                       /\ UNCHANGED error
                  ELSE /\ error' = [error EXCEPT ![c] = obj.u]
                       /\ pc' = [pc EXCEPT ![c] = "raised"]
                       /\ UNCHANGED <<delivered, handling>>
       ELSE /\ pc' = [pc EXCEPT ![c] = "returned"]
            /\ UNCHANGED <<_items, delivered, handling, error>>
    /\ UNCHANGED <<cfg, pool, _default_pool, poolVars, _index, _unsorted, _length,
                   mapres, execs>>
    /\ UNCHANGED notThreadVars

\* NextResult with a loop that takes the next result without waiting for the
\* result_handler invocation in progress to return.
NextResult_NoWait(c) ==
    /\ pc[c] \in {"next", "result_handler"}
    /\ IF _items[c] # <<>>
       THEN LET obj == Head(_items[c])
            IN /\ _items' = [_items EXCEPT ![c] = Tail(@)]
               /\ IF obj.ok
                  THEN /\ delivered' = [delivered EXCEPT ![c] =
                              Append(@, [u |-> obj.u, args |-> ResultArgs(cfg[c], obj.val[1])])]
                       /\ handling' = [handling EXCEPT ![c] = @ \cup {obj.u}]
                       /\ pc' = [pc EXCEPT ![c] = "result_handler"]
                       /\ UNCHANGED error
                  ELSE /\ error' = [error EXCEPT ![c] = obj.u]
                       /\ pc' = [pc EXCEPT ![c] = "raised"]
                       /\ UNCHANGED <<delivered, handling>>
       ELSE /\ pc[c] = "next"
            /\ _index[c] = _length[c]
            /\ pc' = [pc EXCEPT ![c] = "returned"]
            /\ UNCHANGED <<_items, delivered, handling, error>>
    /\ UNCHANGED <<cfg, pool, _default_pool, poolVars, _index, _unsorted, _length,
                   mapres, execs>>
    /\ UNCHANGED notThreadVars

\* NextResult with a loop that drops a failed result and goes on to the next.
NextResult_SkipFailed(c) ==
    /\ pc[c] = "next"
    /\ IF _items[c] # <<>>
       THEN LET obj == Head(_items[c])
            IN /\ _items' = [_items EXCEPT ![c] = Tail(@)]
               /\ IF obj.ok
                  THEN /\ delivered' = [delivered EXCEPT ![c] =
                              Append(@, [u |-> obj.u, args |-> ResultArgs(cfg[c], obj.val[1])])]
                       /\ handling' = [handling EXCEPT ![c] = @ \cup {obj.u}]
                       /\ pc' = [pc EXCEPT ![c] = "result_handler"]
                       /\ UNCHANGED error
                  ELSE UNCHANGED <<pc, error, delivered, handling>>
       ELSE /\ _index[c] = _length[c]
            /\ pc' = [pc EXCEPT ![c] = "returned"]
            /\ UNCHANGED <<_items, delivered, handling, error>>
    /\ UNCHANGED <<cfg, pool, _default_pool, poolVars, _index, _unsorted, _length,
                   mapres, execs>>
    /\ UNCHANGED notThreadVars

\* NextResult with a loop that, when a result is a failure, also withdraws the
\* call's tasks no worker has taken yet.
NextResult_CancelOnFailure(c) ==
    /\ pc[c] = "next"
    /\ IF _items[c] # <<>>
       THEN LET obj == Head(_items[c])
            IN /\ _items' = [_items EXCEPT ![c] = Tail(@)]
               /\ IF obj.ok
                  THEN /\ delivered' = [delivered EXCEPT ![c] =
                              Append(@, [u |-> obj.u, args |-> ResultArgs(cfg[c], obj.val[1])])]
                       /\ handling' = [handling EXCEPT ![c] = @ \cup {obj.u}]
                       /\ pc' = [pc EXCEPT ![c] = "result_handler"]
                       /\ UNCHANGED <<error, inqueue>>
                  ELSE /\ error' = [error EXCEPT ![c] = obj.u]
                       /\ pc' = [pc EXCEPT ![c] = "raised"]
                       /\ inqueue' = [p \in PoolIds |-> SelectSeq(inqueue[p], LAMBDA t : t.c # c)]
                       /\ UNCHANGED <<delivered, handling>>
       ELSE /\ _index[c] = _length[c]
            /\ pc' = [pc EXCEPT ![c] = "returned"]
            /\ UNCHANGED <<_items, delivered, handling, error, inqueue>>
    /\ UNCHANGED <<cfg, pool, _default_pool, workers, running, _index, _unsorted, _length,
                   mapres, execs>>
    /\ UNCHANGED notThreadVars

\* NextResult with an iterator that blocks instead of ending when every
\* result was taken.
NextResult_NeverStops(c) ==
    /\ pc[c] = "next"
    /\ _items[c] # <<>>
    /\ LET obj == Head(_items[c])
       IN /\ _items' = [_items EXCEPT ![c] = Tail(@)]
          /\ IF obj.ok
             THEN /\ delivered' = [delivered EXCEPT ![c] =
                         Append(@, [u |-> obj.u, args |-> ResultArgs(cfg[c], obj.val[1])])]
                  /\ handling' = [handling EXCEPT ![c] = @ \cup {obj.u}]
                  /\ pc' = [pc EXCEPT ![c] = "result_handler"]
                  /\ UNCHANGED error
             ELSE /\ error' = [error EXCEPT ![c] = obj.u]
                  /\ pc' = [pc EXCEPT ![c] = "raised"]
                  /\ UNCHANGED <<delivered, handling>>
    /\ UNCHANGED <<cfg, pool, _default_pool, poolVars, _index, _unsorted, _length,
                   mapres, execs>>
    /\ UNCHANGED notThreadVars

\* `for data in <iterator>:` one next() of the iterator.  A ready result is
\* popped: a success enters the loop body, result_handler(data) or
\* result_handler(*data); a failure is raised out of the call.  With nothing
\* ready and every result taken in, StopIteration ends the loop and the call
\* returns; otherwise next() blocks.
NextResult(c) ==
    /\ pc[c] = "next"
    /\ IF _items[c] # <<>>
       THEN LET obj == Head(_items[c])
            IN /\ _items' = [_items EXCEPT ![c] = Tail(@)]
               /\ IF obj.ok
                  THEN /\ delivered' = [delivered EXCEPT ![c] =
                              Append(@, [u |-> obj.u, args |-> ResultArgs(cfg[c], obj.val[1])])]
                       /\ handling' = [handling EXCEPT ![c] = @ \cup {obj.u}]
                       /\ pc' = [pc EXCEPT ![c] = "result_handler"]
                       /\ UNCHANGED error
                  ELSE /\ error' = [error EXCEPT ![c] = obj.u]
                       /\ pc' = [pc EXCEPT ![c] = "raised"]
                       /\ UNCHANGED <<delivered, handling>>
       ELSE /\ _index[c] = _length[c]
            /\ pc' = [pc EXCEPT ![c] = "returned"]
            /\ UNCHANGED <<_items, delivered, handling, error>>
    /\ UNCHANGED <<cfg, pool, _default_pool, poolVars, _index, _unsorted, _length,
                   mapres, execs>>
    /\ UNCHANGED notThreadVars

\* ResultHandlerReturn with a loop that goes on after result_handler raised.
ResultHandlerReturn_GoOn(c) ==
    /\ pc[c] = "result_handler"
    /\ handling' = [handling EXCEPT ![c] = {}]
    /\ pc' = [pc EXCEPT ![c] = "next"]
    /\ UNCHANGED <<cfg, pool, _default_pool, poolVars, iterVars, execs, delivered, error>>
    /\ UNCHANGED notThreadVars

\* The loop body ends: result_handler returns to the loop, or it raises and
\* its exception leaves the loop and the call (error: minus the unit).
ResultHandlerReturn(c) ==
    /\ pc[c] = "result_handler"
    /\ handling' = [handling EXCEPT ![c] = {}]
    /\ LET u == delivered[c][Len(delivered[c])].u
       IN IF ResultHandlerRaises(cfg[c], Units(cfg[c])[u])
          THEN /\ pc' = [pc EXCEPT ![c] = "raised"]
               /\ error' = [error EXCEPT ![c] = 0 - u]
          ELSE /\ pc' = [pc EXCEPT ![c] = "next"]
               /\ UNCHANGED error
    /\ UNCHANGED <<cfg, pool, _default_pool, poolVars, iterVars, execs, delivered>>
    /\ UNCHANGED notThreadVars

\* MapGet with a get() that does not wait for the chunks still out.
MapGet_NoWait(c) ==
    /\ pc[c] = "map_get"
    /\ IF mapres[c].ok
       THEN /\ pc' = [pc EXCEPT ![c] = "returned"]
            /\ UNCHANGED error
       ELSE /\ pc' = [pc EXCEPT ![c] = "raised"]
            /\ error' = [error EXCEPT ![c] = mapres[c].err]
    /\ UNCHANGED <<cfg, pool, _default_pool, poolVars, iterVars, execs, delivered, handling>>
    /\ UNCHANGED notThreadVars

\* map: pool.map(...) is MapResult.get(): it waits until every chunk is
\* counted, then returns, or raises the first exception stored.
MapGet(c) ==
    /\ pc[c] = "map_get"
    /\ mapres[c].left = 0
    /\ IF mapres[c].ok
       THEN /\ pc' = [pc EXCEPT ![c] = "returned"]
            /\ UNCHANGED error
       ELSE /\ pc' = [pc EXCEPT ![c] = "raised"]
            /\ error' = [error EXCEPT ![c] = mapres[c].err]
    /\ UNCHANGED <<cfg, pool, _default_pool, poolVars, iterVars, execs, delivered, handling>>
    /\ UNCHANGED notThreadVars

\* ------------------------------------------------------- the specification
Next ==
    \/ \E c \in Callers : Call(c)
    \/ \E c \in Callers : GetDefaultPoolTest(c)
    \/ \E c \in Callers : CreateDefaultPool(c)
    \/ \E c \in Callers : ReturnDefaultPool(c)
    \/ \E c \in Callers : Submit(c)
    \/ \E p \in PoolIds : WorkerStart(p)
    \/ \E p \in PoolIds : \E t \in running[p] : WorkerRun(p, t)
    \/ \E c \in Callers : NextResult(c)
    \/ \E c \in Callers : ResultHandlerReturn(c)
    \/ \E c \in Callers : MapGet(c)

Spec == Init /\ [][Next]_vars

\* The pool's worker threads are scheduled fairly and the handlers return:
\* a free worker takes a queued task, a running handler comes to its end.
FairSpec ==
    /\ Spec
    /\ WF_vars(\E p \in PoolIds : WorkerStart(p))
    /\ WF_vars(\E p \in PoolIds : \E t \in running[p] : WorkerRun(p, t))

\* Two threads, each making one call without a pool argument, concurrently.
ConcItems == 5

ConcConfigs ==
    [variant : {"map", "handle"}, items : {[i \in 1..ConcItems |-> 1]},
     batch_size : {0}, bad : {{}}, hang : {{}}, rbad : {{}}, pool : {None}]

InitConc ==
    /\ pc = [c \in Callers |-> "idle"]
    /\ InitPools
    /\ LogOff /\ RetryOff /\ BatchOff /\ MongoOff /\ DevOff

CallConc(c) == CallWith(c, ConcConfigs)

NextConc ==
    \/ \E c \in Callers : CallConc(c)
    \/ \E c \in Callers : GetDefaultPoolTest(c)
    \/ \E c \in Callers : CreateDefaultPool(c)
    \/ \E c \in Callers : ReturnDefaultPool(c)
    \/ \E c \in Callers : Submit(c)
    \/ \E p \in PoolIds : WorkerStart(p)
    \/ \E p \in PoolIds : \E t \in running[p] : WorkerRun(p, t)
    \/ \E c \in Callers : NextResult(c)
    \/ \E c \in Callers : ResultHandlerReturn(c)
    \/ \E c \in Callers : MapGet(c)

SpecConc == InitConc /\ [][NextConc]_vars

\* ----------------------------------------------------- what the claims use
\* The operations the documentation gives ordered delivery, the unordered
\* ones, and those whose result handler also receives the unit.
OrderedNames == {"batch_handle", "batch_handle_with_batch", "handle"}
UnorderedNames ==
    {"batch_handle_unordered", "batch_handle_with_batch_unordered",
     "handle_unordered", "handle_with_item_unordered"}
WithUnitNames ==
    {"batch_handle_with_batch", "batch_handle_with_batch_unordered",
     "handle_with_item", "handle_with_item_unordered"}

NumUnits(c) == Len(Units(cfg[c]))
UnitIds(c) == 1..NumUnits(c)
\* The units of call c on which the caller's unit handler raises.
Failing(c) == {u \in UnitIds(c) : HandlerRaises(cfg[c], Units(cfg[c])[u])}
\* How many result_handler invocations call c has made for unit u.
TimesDelivered(c, u) ==
    Cardinality({k \in 1..Len(delivered[c]) : delivered[c][k].u = u})
\* The result_handler invocations of call c follow the submission order.
InSubmissionOrder(c) == \A k \in 1..Len(delivered[c]) : delivered[c][k].u = k

\* ------------------------------------------------------------------ claims
\* C1: in batch_handle, batch_handle_with_batch and handle, the k-th
\* result_handler invocation is for the k-th submitted unit, whatever the
\* order the units finish in, and an invocation starts only when the one
\* before it has returned (only the latest can be in progress).
C1_OrderedDelivery ==
    \A c \in Callers :
        cfg[c].variant \in OrderedNames =>
            /\ InSubmissionOrder(c)
            /\ handling[c] \subseteq {Len(delivered[c])}

\* C1 witness: result_handler is running on the first unit while the third
\* unit's result, finished before the second's, is held back.
C1_Witness ==
    \E c \in Callers :
        /\ cfg[c].variant \in OrderedNames
        /\ handling[c] = {1}
        /\ Len(delivered[c]) = 1
        /\ DOMAIN _unsorted[c] = {2}

\* C2: handle_with_item invokes result_handler with the (item, result) pairs
\* in the input order of the items.
C2_HandleWithItemOrdered ==
    \A c \in Callers :
        cfg[c].variant = "handle_with_item" => InSubmissionOrder(c)

\* C3: in the eight dispatch variants, when no unit handler fails the call
\* does not raise, no unit is ever handed to result_handler twice, and when
\* the call has returned every unit has been handed to it exactly once.
C3_ResultHandlerOncePerUnit ==
    \A c \in Callers :
        (cfg[c].variant \in DispatchVariants /\ Failing(c) = {}) =>
            /\ pc[c] # "raised"
            /\ \A u \in UnitIds(c) : TimesDelivered(c, u) <= 1
            /\ pc[c] = "returned" =>
                  /\ Len(delivered[c]) = NumUnits(c)
                  /\ \A u \in UnitIds(c) : TimesDelivered(c, u) = 1

\* C3 witness: an unordered call of three units has returned, having handled
\* the third unit first.
C3_Witness ==
    \E c \in Callers :
        /\ cfg[c].variant \in UnorderedNames
        /\ Failing(c) = {}
        /\ pc[c] = "returned"
        /\ NumUnits(c) = 3
        /\ delivered[c][1].u = 3

\* The call c has ended and the pool holds no task of it any more.
Settled(c) ==
    /\ pc[c] \in {"returned", "raised"}
    /\ \A p \in PoolIds :
        /\ \A k \in 1..Len(inqueue[p]) : inqueue[p][k].c # c
        /\ \A t \in running[p] : t.c # c

\* C4: in every dispatch variant and in map no unit's handler is ever
\* executed twice, and once the call has ended and the pool has worked off
\* its tasks every unit's handler has been executed exactly once: once per
\* batch, once per item, once per element given to map.
C4_HandlerOncePerUnit ==
    \A c \in Callers :
        cfg[c].variant \in Variants =>
            /\ \A u \in DOMAIN execs[c] : execs[c][u] <= 1
            /\ Settled(c) => \A u \in UnitIds(c) : execs[c][u] = 1

\* Element u of a map call follows, in its own pool.map chunk, an element
\* whose handler raises.
SkippedByMap(c, u) ==
    LET cs == MapChunkSize(NumUnits(c), workers[pool[c]])
    IN \E f \in Failing(c) : f < u /\ (f - 1) \div cs = (u - 1) \div cs

\* What holds instead of C4 (an invariant of Spec): the dispatch variants
\* execute every unit exactly once, map every element exactly once except
\* those that follow a raising element in the same chunk, which never run.
HandlerOncePerUnitButMapChunks ==
    \A c \in Callers :
        cfg[c].variant \in Variants =>
            /\ \A u \in DOMAIN execs[c] : execs[c][u] <= 1
            /\ Settled(c) =>
                 \A u \in UnitIds(c) :
                    execs[c][u] =
                        IF cfg[c].variant = "map" /\ SkippedByMap(c, u) THEN 0 ELSE 1

\* The arguments result_handler gets when the unit handler is applied to the
\* unit directly.
Direct(cf, unit) ==
    LET r == IF cf.variant \in BatchVariants THEN Sum(unit) ELSE unit * unit
    IN IF cf.variant \in WithUnitNames THEN <<unit, r>> ELSE <<r>>

\* How often result_handler of call c was invoked with the arguments x, and
\* how often x comes out of applying the handler to the units directly.
TimesPassed(c, x) ==
    Cardinality({k \in 1..Len(delivered[c]) : delivered[c][k].args = x})
TimesDirect(c, x) ==
    Cardinality({u \in UnitIds(c) : Direct(cfg[c], Units(cfg[c])[u]) = x})

\* C5: in the four unordered variants with non-failing handlers,
\* result_handler never gets a value more often than direct application
\* yields it, and when the call has returned the values it got are, as a
\* multiset, those of direct application, each unit delivered once.
C5_UnorderedMultiset ==
    \A c \in Callers :
        (cfg[c].variant \in UnorderedNames /\ Failing(c) = {}) =>
            /\ \A k \in 1..Len(delivered[c]) :
                  TimesPassed(c, delivered[c][k].args) <= TimesDirect(c, delivered[c][k].args)
            /\ pc[c] = "returned" =>
                  /\ \A u \in UnitIds(c) :
                        /\ TimesDelivered(c, u) = 1
                        /\ TimesPassed(c, Direct(cfg[c], Units(cfg[c])[u]))
                              = TimesDirect(c, Direct(cfg[c], Units(cfg[c])[u]))
                  /\ Len(delivered[c]) = NumUnits(c)

\* C5 witness: handle_with_item_unordered([1, 2, 3], pow2, ...) has returned
\* after delivering (3, 9) first and (1, 1) last.
C5_Witness ==
    \E c \in Callers :
        /\ cfg[c].variant = "handle_with_item_unordered"
        /\ cfg[c].items = <<1, 2, 3>>
        /\ pc[c] = "returned"
        /\ delivered[c][1].args = <<3, 9>>
        /\ delivered[c][3].args = <<1, 1>>

\* C6: at most one result_handler invocation of a call is in progress at any
\* moment, and it is the calling thread that is inside it.
C6_SequentialResultHandler ==
    \A c \in Callers :
        /\ Cardinality(handling[c]) <= 1
        /\ handling[c] # {} => pc[c] = "result_handler"

\* C6 witness: result_handler is in progress while two unit handlers of the
\* same call run on pool workers.
C6_Witness ==
    \E c \in Callers :
        /\ Cardinality(handling[c]) = 1
        /\ Cardinality({t \in running[pool[c]] : t.c = c}) = 2

\* The first unit, in submission order, whose handler raises (0: none).
FirstFailing(c) ==
    IF Failing(c) = {} THEN 0
    ELSE CHOOSE u \in Failing(c) : \A w \in Failing(c) : u <= w

\* C8: in batch_handle, batch_handle_with_batch and handle, when k is the
\* first unit whose handler raises, result_handler is only ever invoked for
\* units before k, in order; the call never returns normally; and when it
\* has raised, it raised unit k's failure with exactly the units before k
\* delivered.
C8_OrderedFailure ==
    \A c \in Callers :
        (cfg[c].variant \in OrderedNames /\ Failing(c) # {}) =>
            /\ InSubmissionOrder(c)
            /\ Len(delivered[c]) < FirstFailing(c)
            /\ pc[c] # "returned"
            /\ pc[c] = "raised" =>
                  /\ error[c] = FirstFailing(c)
                  /\ Len(delivered[c]) = FirstFailing(c) - 1

\* C8 witness: an ordered call of three units has raised the second unit's
\* failure with the first unit delivered, the third unit's handler having
\* run too.
C8_Witness ==
    \E c \in Callers :
        /\ cfg[c].variant \in OrderedNames
        /\ NumUnits(c) = 3
        /\ pc[c] = "raised"
        /\ error[c] = 2
        /\ Len(delivered[c]) = 1
        /\ execs[c][3] = 1

\* C9: in the four unordered variants, when some unit's handler raises, the
\* call never returns normally; result_handler is never invoked for a unit
\* whose handler raised and always with the value the handler returned;
\* and when the call has raised, it raised the failure of a failing unit.
C9_UnorderedFailure ==
    \A c \in Callers :
        (cfg[c].variant \in UnorderedNames /\ Failing(c) # {}) =>
            /\ pc[c] # "returned"
            /\ \A k \in 1..Len(delivered[c]) :
                  /\ delivered[c][k].u \notin Failing(c)
                  /\ delivered[c][k].args = Direct(cfg[c], Units(cfg[c])[delivered[c][k].u])
            /\ \A u \in UnitIds(c) : TimesDelivered(c, u) <= 1
            /\ pc[c] = "raised" => error[c] \in Failing(c)

\* C9 witness: an unordered call has raised the first unit's failure after
\* result_handler was invoked for the third unit.
C9_Witness ==
    \E c \in Callers :
        /\ cfg[c].variant \in UnorderedNames
        /\ pc[c] = "raised"
        /\ error[c] = 1
        /\ Len(delivered[c]) >= 1
        /\ delivered[c][1].u = 3

\* The unit-handler invocations in progress for calls made without a pool
\* argument.
RunningOnDefault ==
    {t \in UNION {running[p] : p \in PoolIds} : cfg[t.c].pool = None}

\* C7: with the default pool at most 8 unit-handler invocations execute at
\* any moment, whatever the number of units and of concurrent calls, and a
\* pool get_default_pool created has 8 workers for as long as it exists.
C7_AtMostEightConcurrent ==
    /\ Cardinality(RunningOnDefault) <= 8
    /\ \A p \in PoolIds \ {ExplicitPool} : workers[p] \in {0, 8}

\* C10: once a dispatch call with a raising unit has submitted its units,
\* the handler of every unit of the call gets executed, exactly once,
\* whether or not the call has raised by then.
C10_OtherUnitsStillRun ==
    \A c \in Callers :
        (/\ cfg[c].variant \in DispatchVariants
         /\ Failing(c) # {}
         /\ pc[c] \in {"next", "result_handler", "raised"})
        ~> (/\ DOMAIN execs[c] = UnitIds(c)
            /\ \A u \in UnitIds(c) : execs[c][u] = 1)

\* C10 witness: a dispatch call of three units has raised the first unit's
\* failure, and the handlers of the second and third unit have run.
C10_Witness ==
    \E c \in Callers :
        /\ cfg[c].variant \in DispatchVariants
        /\ NumUnits(c) = 3
        /\ pc[c] = "raised"
        /\ error[c] = 1
        /\ Settled(c)
        /\ execs[c][2] = 1
        /\ execs[c][3] = 1

\* ============================================================ batch() alone
\* Longest list and largest batch size given to a direct call of batch().
MaxBatchItems == 10
MaxBatchSize == 4

\* The lists [0, ..., n - 1] of the docstring, and batch sizes from -1 up.
BatchInputs == {[i \in 1..n |-> i - 1] : n \in 0..MaxBatchItems}
BatchSizes == (0 - 1)..MaxBatchSize

\* No dispatch call is made.
ThreadOff ==
    /\ pc = [c \in Callers |-> "off"]
    /\ InitPools

InitBatch ==
    /\ ThreadOff /\ LogOff /\ RetryOff /\ MongoOff /\ DevOff
    /\ bcall \in [items : BatchInputs, batch_size : BatchSizes, at : {"called"},
                  out : {<<>>}]

\* batch(items, batch_size) comes to its end: the list of batches, or the
\* ValueError of range().
BatchReturn ==
    /\ bcall.at = "called"
    /\ bcall' = IF BatchRaises(bcall.items, bcall.batch_size)
                THEN [bcall EXCEPT !.at = "ValueError"]
                ELSE [bcall EXCEPT !.at = "returned",
                                   !.out = batch(bcall.items, bcall.batch_size)]
    /\ UNCHANGED notBatchVars

NextBatch == BatchReturn

SpecBatch == InitBatch /\ [][NextBatch]_vars

RECURSIVE Concat(_)
Concat(ss) == IF ss = <<>> THEN <<>> ELSE Head(ss) \o Concat(Tail(ss))

\* C11: for a non-empty list and a positive batch size, batch returns, the
\* batches concatenated in order are the list, every batch but the last has
\* batch_size items, the last has between 1 and batch_size items (no empty
\* trailing batch); batch([0..9], 3) = [[0,1,2],[3,4,5],[6,7,8],[9]].
C11_BatchPartitions ==
    (bcall.at # "called" /\ bcall.items # <<>> /\ bcall.batch_size > 0) =>
        LET out == bcall.out
            n == Len(out)
        IN /\ bcall.at = "returned"
           /\ Concat(out) = bcall.items
           /\ n >= 1
           /\ \A k \in 1..(n - 1) : Len(out[k]) = bcall.batch_size
           /\ Len(out[n]) \in 1..bcall.batch_size
           /\ (Len(bcall.items) = 10 /\ bcall.batch_size = 3) =>
                  out = <<<<0, 1, 2>>, <<3, 4, 5>>, <<6, 7, 8>>, <<9>>>>

C11_Witness ==
    /\ bcall.at = "returned"
    /\ bcall.items = <<0, 1, 2, 3, 4, 5, 6, 7, 8, 9>>
    /\ bcall.batch_size = 3
    /\ bcall.out = <<<<0, 1, 2>>, <<3, 4, 5>>, <<6, 7, 8>>, <<9>>>>

\* ============================================================ empty input
\* The tasks of caller c that a pool holds, queued or running.
TasksOf(c) ==
    UNION {{inqueue[p][k] : k \in {j \in 1..Len(inqueue[p]) : inqueue[p][j].c = c}}
           \cup {t \in running[p] : t.c = c} : p \in PoolIds}

\* C12: batch([], batch_size) is the empty list for a positive batch size;
\* so a dispatch variant called with an empty `items` submits no unit, invokes
\* neither the unit handler nor result_handler, and does not raise.
C12_EmptyItems ==
    \A c \in Callers :
        (cfg[c].variant \in DispatchVariants /\ cfg[c].items = <<>>) =>
            /\ cfg[c].variant \in BatchVariants =>
                   /\ cfg[c].batch_size > 0
                   /\ ~BatchRaises(cfg[c].items, cfg[c].batch_size)
                   /\ batch(cfg[c].items, cfg[c].batch_size) = <<>>
            /\ Units(cfg[c]) = <<>>
            /\ TasksOf(c) = {}
            /\ DOMAIN execs[c] = {}
            /\ delivered[c] = <<>>
            /\ handling[c] = {}
            /\ pc[c] \notin {"raised", "result_handler"}

\* A batch variant has returned from a call with an empty list.
C12_Witness ==
    \E c \in Callers :
        /\ pc[c] = "returned"
        /\ cfg[c].variant = "batch_handle_with_batch"
        /\ cfg[c].items = <<>>
        /\ cfg[c].batch_size = MaxBatch
        /\ delivered[c] = <<>>

\* ===================================================== batch sizes <= 0
\* Calls of the batch variants with batch sizes -1, 0 and 1.
BadSizeConfigs ==
    [variant : BatchVariants, items : {<<>>, <<1>>, <<1, 2>>},
     batch_size : (0 - 1)..1, bad : BadSets, hang : {{}}, rbad : {{}}, pool : {None, ExplicitPool}]

CallBadSize(c) == CallWith(c, BadSizeConfigs)

NextBadSize ==
    \/ \E c \in Callers : CallBadSize(c)
    \/ \E c \in Callers : GetDefaultPoolTest(c)
    \/ \E c \in Callers : CreateDefaultPool(c)
    \/ \E c \in Callers : ReturnDefaultPool(c)
    \/ \E c \in Callers : Submit(c)
    \/ \E p \in PoolIds : WorkerStart(p)
    \/ \E p \in PoolIds : \E t \in running[p] : WorkerRun(p, t)
    \/ \E c \in Callers : NextResult(c)
    \/ \E c \in Callers : ResultHandlerReturn(c)

SpecBadSize == Init /\ [][NextBadSize]_vars

\* C13: a batch size <= 0, zero and negative alike, is rejected with an
\* error by batch and by every batch_handle* variant: no unit is submitted,
\* no handler is invoked, and the call never returns normally.
C13_NonPositiveSizeRejected ==
    \A c \in Callers :
        (cfg[c].variant \in BatchVariants /\ cfg[c].batch_size <= 0) =>
            /\ pc[c] # "returned"
            /\ TasksOf(c) = {}
            /\ DOMAIN execs[c] = {}
            /\ delivered[c] = <<>>

\* What the code does with such a size: 0 raises the ValueError of range()
\* before anything is submitted, a negative size makes an empty range, so
\* that the call handles nothing and returns normally.
NonPositiveSizeOutcome ==
    \A c \in Callers :
        (cfg[c].variant \in BatchVariants /\ cfg[c].batch_size <= 0) =>
            /\ TasksOf(c) = {}
            /\ DOMAIN execs[c] = {}
            /\ delivered[c] = <<>>
            /\ pc[c] # "raised"
            /\ pc[c] = "ValueError" => cfg[c].batch_size = 0
            /\ pc[c] = "returned" => cfg[c].batch_size < 0

\* ======================================================= calls in sequence
\* One thread making call after call: a call starts when no other call is in
\* progress.  Each call has its own locals; what persists is the module's
\* _default_pool and the pools.
Ended == {"returned", "raised", "ValueError"}

SeqConfigs ==
    [variant : {"get_default_pool"}, items : {<<>>}, batch_size : {0},
     bad : {{}}, hang : {{}}, rbad : {{}},
     pool : {None}]
    \cup
    [variant : {"handle", "handle_with_item_unordered", "map"}, items : {<<1, 2>>},
     batch_size : {0}, bad : BadSets, hang : {{}}, rbad : {{}}, pool : {None, ExplicitPool}]
    \cup
    [variant : {"batch_handle"}, items : {<<1, 2>>},
     batch_size : {1}, bad : BadSets, hang : {{}}, rbad : {{}}, pool : {None, ExplicitPool}]

InitSeq ==
    /\ pc = [c \in Callers |-> "idle"]
    /\ InitPools
    /\ LogOff /\ RetryOff /\ BatchOff /\ MongoOff /\ DevOff

\* CallSeq passing every call on to get_default_pool, whatever `pool` is.
CallSeq_IgnorePool(c) ==
    /\ pc[c] \in {"idle"} \cup Ended
    /\ \A d \in Callers \ {c} : pc[d] \in {"idle"} \cup Ended
    /\ TasksOf(c) = {}
    /\ \E cf \in SeqConfigs :
        /\ cfg' = [cfg EXCEPT ![c] = cf]
        /\ pool' = [pool EXCEPT ![c] = cf.pool]
        /\ pc' = [pc EXCEPT ![c] = "get_default_pool"]
    /\ _items' = [_items EXCEPT ![c] = <<>>]
    /\ _index' = [_index EXCEPT ![c] = 0]
    /\ _unsorted' = [_unsorted EXCEPT ![c] = EmptyFn]
    /\ _length' = [_length EXCEPT ![c] = 0]
    /\ mapres' = [mapres EXCEPT ![c] = [left |-> 0, ok |-> TRUE, err |-> 0]]
    /\ execs' = [execs EXCEPT ![c] = EmptyFn]
    /\ delivered' = [delivered EXCEPT ![c] = <<>>]
    /\ handling' = [handling EXCEPT ![c] = {}]
    /\ error' = [error EXCEPT ![c] = 0]
    /\ UNCHANGED <<_default_pool, poolVars>>
    /\ UNCHANGED notThreadVars

\* The next call of the sequence is entered, by get_default_pool() itself or
\* by an operation: `if pool is None: pool = get_default_pool()`.
CallSeq(c) ==
    /\ pc[c] \in {"idle"} \cup Ended
    /\ \A d \in Callers \ {c} : pc[d] \in {"idle"} \cup Ended
    /\ TasksOf(c) = {}
    /\ \E cf \in SeqConfigs :
        /\ cfg' = [cfg EXCEPT ![c] = cf]
        /\ pool' = [pool EXCEPT ![c] = cf.pool]
        /\ pc' = [pc EXCEPT ![c] = IF cf.pool = None THEN "get_default_pool" ELSE "submit"]
    /\ _items' = [_items EXCEPT ![c] = <<>>]
    /\ _index' = [_index EXCEPT ![c] = 0]
    /\ _unsorted' = [_unsorted EXCEPT ![c] = EmptyFn]
    /\ _length' = [_length EXCEPT ![c] = 0]
    /\ mapres' = [mapres EXCEPT ![c] = [left |-> 0, ok |-> TRUE, err |-> 0]]
    /\ execs' = [execs EXCEPT ![c] = EmptyFn]
    /\ delivered' = [delivered EXCEPT ![c] = <<>>]
    /\ handling' = [handling EXCEPT ![c] = {}]
    /\ error' = [error EXCEPT ![c] = 0]
    /\ UNCHANGED <<_default_pool, poolVars>>
    /\ UNCHANGED notThreadVars

NextSeq ==
    \/ \E c \in Callers : CallSeq(c)
    \/ \E c \in Callers : GetDefaultPoolTest(c)
    \/ \E c \in Callers : CreateDefaultPool(c)
    \/ \E c \in Callers : ReturnDefaultPool(c)
    \/ \E c \in Callers : Submit(c)
    \/ \E p \in PoolIds : WorkerStart(p)
    \/ \E p \in PoolIds : \E t \in running[p] : WorkerRun(p, t)
    \/ \E c \in Callers : NextResult(c)
    \/ \E c \in Callers : ResultHandlerReturn(c)
    \/ \E c \in Callers : MapGet(c)

SpecSeq == InitSeq /\ [][NextSeq]_vars

\* The pools made by get_default_pool, and the positions of a call at which
\* its `pool` has been assigned.
CreatedPools == {p \in PoolIds \ {ExplicitPool} : workers[p] # 0}
HasPool == {"submit", "next", "result_handler", "map_get"} \cup Ended

\* C14: over a sequence of calls made without a pool argument and of
\* get_default_pool calls, exactly one default pool, of 8 workers, is made,
\* by the first such call; every later call gets that same pool, which is
\* never replaced.
C14_OneDefaultPool ==
    /\ Cardinality(CreatedPools) <= 1
    /\ \A p \in CreatedPools : workers[p] = DefaultPoolWorkers /\ _default_pool = p
    /\ _default_pool # None => _default_pool \in CreatedPools
    /\ \A c \in Callers :
           (cfg[c].variant # "none" /\ cfg[c].pool = None /\ pc[c] \in HasPool) =>
               /\ pool[c] = _default_pool
               /\ pool[c] \in CreatedPools
               /\ \A t \in TasksOf(c) :
                      t \in running[pool[c]] \/ \E k \in 1..Len(inqueue[pool[c]]) : inqueue[pool[c]][k] = t

\* A get_default_pool() call and a later handle call have ended with the
\* same pool.
C14_Witness ==
    \E c, d \in Callers :
        /\ c # d
        /\ cfg[c].variant = "get_default_pool" /\ pc[c] = "returned"
        /\ cfg[d].variant = "handle" /\ cfg[d].pool = None /\ pc[d] = "returned"
        /\ Len(delivered[d]) = 2
        /\ pool[c] = pool[d] /\ pool[c] # None
        /\ workers[pool[c]] = DefaultPoolWorkers

\* The tasks a pool made by get_default_pool holds, queued or running.
OnDefaultPools ==
    UNION {{inqueue[p][k] : k \in 1..Len(inqueue[p])} \cup running[p] :
           p \in PoolIds \ {ExplicitPool}}

\* A call given a pool never enters get_default_pool and has its units on
\* that pool only.
ExplicitPoolOnly ==
    \A c \in Callers :
        cfg[c].pool = ExplicitPool =>
            /\ pc[c] \notin {"get_default_pool", "create_pool", "return_pool"}
            /\ pool[c] = ExplicitPool
            /\ \A t \in OnDefaultPools : t.c # c
            /\ \A t \in TasksOf(c) :
                   t \in running[ExplicitPool] \/
                   \E k \in 1..Len(inqueue[ExplicitPool]) : inqueue[ExplicitPool][k] = t

\* A step of a call given a pool changes neither _default_pool nor a default
\* pool's workers and queue.
ExplicitStepKeepsDefault ==
    \A c \in Callers :
        (cfg'[c].pool = ExplicitPool /\ pc'[c] # pc[c]) =>
            /\ _default_pool' = _default_pool
            /\ \A p \in PoolIds \ {ExplicitPool} :
                   /\ workers'[p] = workers[p]
                   /\ inqueue'[p] = inqueue[p]
                   /\ running'[p] = running[p]

\* C15: a call with an explicit pool argument runs all its units on that
\* pool only and leaves the default pool as it is: it does not make it when
\* there is none, and submits nothing to it when there is one.
C15_ExplicitPoolOnly ==
    []ExplicitPoolOnly /\ [][ExplicitStepKeepsDefault]_vars

\* A call given a pool has its units running on that pool while the default
\* pool, made by an earlier call, exists.
C15_Witness ==
    \E c \in Callers :
        /\ cfg[c].pool = ExplicitPool
        /\ pc[c] = "next"
        /\ \E t \in running[ExplicitPool] : t.c = c
        /\ _default_pool # None

\* ========================================================= synchronous calls
\* C16: a call is synchronous: when no handler fails, a dispatch call has
\* returned only after every unit's handler has finished and result_handler
\* has completed for every unit, and map has returned only after item_handler
\* has finished for every item.
C16_Synchronous ==
    \A c \in Callers :
        (pc[c] = "returned" /\ cfg[c].variant \in Variants /\ Failing(c) = {}) =>
            /\ TasksOf(c) = {}
            /\ \A u \in UnitIds(c) : execs[c][u] >= 1
            /\ cfg[c].variant \in DispatchVariants =>
                   /\ handling[c] = {}
                   /\ \A u \in UnitIds(c) : TimesDelivered(c, u) >= 1

\* A map over the longest list has returned, every item handled.
C16_Witness ==
    /\ \E c \in Callers :
        /\ pc[c] = "returned"
        /\ cfg[c].variant = "map"
        /\ Len(cfg[c].items) = MaxMapItems
        /\ \A u \in UnitIds(c) : execs[c][u] = 1

\* ====================================================== a handler that hangs
\* Calls whose handler never returns on the item 3 and raises on the items
\* of `bad`, made with the caller's pool.
HangValue == 3

HangLists ==
    {s \in SeqsUpTo(Values \cup {HangValue}, MaxItems) :
        \E i \in 1..Len(s) : s[i] = HangValue}

HangConfigs ==
    [variant : BatchVariants, items : HangLists, batch_size : 1..MaxBatch,
     bad : BadSets, hang : {{HangValue}}, rbad : {{}}, pool : {ExplicitPool}]
    \cup
    [variant : ItemVariants, items : HangLists, batch_size : {0},
     bad : BadSets, hang : {{HangValue}}, rbad : {{}}, pool : {ExplicitPool}]

CallHang(c) == CallWith(c, HangConfigs)

NextHang ==
    \/ \E c \in Callers : CallHang(c)
    \/ \E c \in Callers : Submit(c)
    \/ \E p \in PoolIds : WorkerStart(p)
    \/ \E p \in PoolIds : \E t \in running[p] : WorkerRun(p, t)
    \/ \E c \in Callers : NextResult(c)
    \/ \E c \in Callers : ResultHandlerReturn(c)

SpecHang == Init /\ [][NextHang]_vars

\* The units of call c on which the handler never returns.
Hung(c) == {u \in UnitIds(c) : HandlerHangs(cfg[c], Units(cfg[c])[u])}

\* result_handler was invoked for no unit from the first hung one on.
NothingFromHungOn(c) ==
    \A k \in 1..Len(delivered[c]) : \A h \in Hung(c) : delivered[c][k].u < h

\* C17: when the unit handler never returns on some unit, the dispatch call
\* never returns, in the ordered and the unordered variants; in an ordered
\* variant (batch_handle, batch_handle_with_batch, handle, handle_with_item)
\* result_handler is moreover never invoked for a unit after the hung one.
C17_HungHandlerBlocks ==
    \A c \in Callers :
        Hung(c) # {} =>
            /\ pc[c] # "returned"
            /\ cfg[c].variant \in OrderedNames \cup {"handle_with_item"} =>
                   NothingFromHungOn(c)

\* What the code does: the call never returns normally, it ends only by
\* raising the failure of another unit (one before the hung unit when the
\* results are taken in order), and the variants iterating imap invoke
\* result_handler for no unit from the hung one on.
HungHandlerOutcome ==
    \A c \in Callers :
        Hung(c) # {} =>
            /\ pc[c] # "returned"
            /\ \A k \in 1..Len(delivered[c]) : delivered[c][k].u \notin Hung(c)
            /\ pc[c] = "raised" => error[c] \in Failing(c) \ Hung(c)
            /\ PoolMethod(cfg[c].variant) = "imap" =>
                   /\ NothingFromHungOn(c)
                   /\ pc[c] = "raised" => \A h \in Hung(c) : error[c] < h

\* ============================================================ pyt.loggingutil
\* Root names given to initialize: None, one of two characters, two valid
\* ones; a child logger's name; a message.
RootNames == {NoName, "ab", "app", "pyt"}
ChildNames == {"db"}
Msgs == {"msg"}
Helpers == {"debug", "info", "warning", "error", "exception"}

\* The Logger method each convenience function calls on the root logger.
HelperMethod(h) ==
    CASE h = "debug" -> "debug"
      [] h = "info" -> "debug"
      [] h = "warning" -> "warning"
      [] h = "error" -> "error"
      [] h = "exception" -> "exception"

\* The level of the record a Logger method makes (logging: exception() logs
\* at ERROR with the exception information).
MethodLevel(meth) ==
    CASE meth = "debug" -> "DEBUG"
      [] meth = "info" -> "INFO"
      [] meth = "warning" -> "WARNING"
      [] meth = "error" -> "ERROR"
      [] meth = "exception" -> "ERROR"

\* get_root_logger returning logging.getLogger(_root_name) without its test.
get_root_logger_NoCheck ==
    [raised |-> FALSE, logger |-> _root_name]

\* get_root_logger(): NotInitialized when _root_name is None, else
\* logging.getLogger(_root_name).
get_root_logger ==
    IF _root_name = NoName
    THEN [raised |-> TRUE, logger |-> NoName]
    ELSE [raised |-> FALSE, logger |-> _root_name]

InitLog ==
    /\ ThreadOff /\ RetryOff /\ BatchOff /\ MongoOff /\ DevOff
    /\ _root_name = NoName
    /\ lpc = [t \in LogThreads |-> IF t = 1 THEN "idle" ELSE "off"]
    /\ largs = [t \in LogThreads |-> NoInitArgs]
    /\ lres = [t \in LogThreads |-> NoLogCall]
    /\ configured = {}
    /\ assigns = 0

\* A thread calls get_root_logger().
GetRootLogger(t) ==
    /\ lpc[t] = "idle"
    /\ LET r == get_root_logger
       IN lres' = [lres EXCEPT ![t] =
                      [op |-> "get_root_logger", arg |-> NoName, before |-> _root_name,
                       out |-> IF r.raised THEN "NotInitialized" ELSE "logger",
                       method |-> "none", level |-> "none", logger |-> r.logger]]
    /\ UNCHANGED <<_root_name, lpc, largs, configured, assigns>>
    /\ UNCHANGED notLogVars

\* A thread calls get_logger(name): get_root_logger().getChild(name).
GetLogger(t) ==
    /\ lpc[t] = "idle"
    /\ \E name \in ChildNames :
        LET r == get_root_logger
        IN lres' = [lres EXCEPT ![t] =
                       [op |-> "get_logger", arg |-> name, before |-> _root_name,
                        out |-> IF r.raised THEN "NotInitialized" ELSE "logger",
                        method |-> "none", level |-> "none",
                        logger |-> IF r.raised THEN NoName ELSE r.logger \o "." \o name]]
    /\ UNCHANGED <<_root_name, lpc, largs, configured, assigns>>
    /\ UNCHANGED notLogVars

\* A thread calls debug, info, warning, error or exception with a message:
\* get_root_logger().<method>(msg, *args, **kwargs).
Helper(t) ==
    /\ lpc[t] = "idle"
    /\ \E h \in Helpers, msg \in Msgs :
        LET r == get_root_logger
            meth == HelperMethod(h)
        IN lres' = [lres EXCEPT ![t] =
                       IF r.raised
                       THEN [op |-> h, arg |-> msg, before |-> _root_name,
                             out |-> "NotInitialized", method |-> "none",
                             level |-> "none", logger |-> NoName]
                       ELSE [op |-> h, arg |-> msg, before |-> _root_name,
                             out |-> "logged", method |-> meth,
                             level |-> MethodLevel(meth), logger |-> r.logger]]
    /\ UNCHANGED <<_root_name, lpc, largs, configured, assigns>>
    /\ UNCHANGED notLogVars

\* A thread calls initialize(root_name, add_console_handler, add_file_handler).
InitializeCall(t) ==
    /\ lpc[t] = "idle"
    /\ \E rn \in RootNames, con \in BOOLEAN, fil \in BOOLEAN :
        largs' = [largs EXCEPT ![t] =
                     [root_name |-> rn, console |-> con, file |-> fil,
                      before |-> _root_name]]
    /\ lpc' = [lpc EXCEPT ![t] = "init_test"]
    /\ UNCHANGED <<_root_name, lres, configured, assigns>>
    /\ UNCHANGED notLogVars

\* The result of the initialize call of thread t.
InitializeResult(t, outcome) ==
    [op |-> "initialize", arg |-> largs[t].root_name, before |-> largs[t].before,
     out |-> outcome, method |-> "none", level |-> "none", logger |-> NoName]

\* initialize: `if _root_name is not None: raise AlreadyInitialized(...)`
InitializeTest(t) ==
    /\ lpc[t] = "init_test"
    /\ IF _root_name # NoName
       THEN /\ lres' = [lres EXCEPT ![t] = InitializeResult(t, "AlreadyInitialized")]
            /\ lpc' = [lpc EXCEPT ![t] = "idle"]
       ELSE /\ lpc' = [lpc EXCEPT ![t] = "init_validate"]
            /\ UNCHANGED lres
    /\ UNCHANGED <<_root_name, largs, configured, assigns>>
    /\ UNCHANGED notLogVars

\* InitializeValidate with the root name assigned before it is validated.
InitializeValidate_AfterAssign(t) ==
    /\ lpc[t] = "init_validate"
    /\ IF largs[t].root_name = NoName \/ Len(largs[t].root_name) <= 2
       THEN /\ lres' = [lres EXCEPT ![t] = InitializeResult(t, "ValueError")]
            /\ lpc' = [lpc EXCEPT ![t] = "idle"]
            /\ _root_name' = largs[t].root_name
       ELSE /\ lpc' = [lpc EXCEPT ![t] = "init_assign"]
            /\ UNCHANGED <<lres, _root_name>>
    /\ UNCHANGED <<largs, configured, assigns>>
    /\ UNCHANGED notLogVars

\* initialize: `if root_name is None or len(root_name) <= 2: raise ValueError`
InitializeValidate(t) ==
    /\ lpc[t] = "init_validate"
    /\ IF largs[t].root_name = NoName \/ Len(largs[t].root_name) <= 2
       THEN /\ lres' = [lres EXCEPT ![t] = InitializeResult(t, "ValueError")]
            /\ lpc' = [lpc EXCEPT ![t] = "idle"]
       ELSE /\ lpc' = [lpc EXCEPT ![t] = "init_assign"]
            /\ UNCHANGED lres
    /\ UNCHANGED <<_root_name, largs, configured, assigns>>
    /\ UNCHANGED notLogVars

\* initialize: `_root_name = root_name`
InitializeAssign(t) ==
    /\ lpc[t] = "init_assign"
    /\ _root_name' = largs[t].root_name
    /\ assigns' = assigns + 1
    /\ lpc' = [lpc EXCEPT ![t] = "init_configure"]
    /\ UNCHANGED <<largs, lres, configured>>
    /\ UNCHANGED notLogVars

\* initialize: the logger of root_name gets the level DEBUG and the handlers
\* asked for; the call returns.
InitializeConfigure(t) ==
    /\ lpc[t] = "init_configure"
    /\ LET rn == largs[t].root_name
       IN configured' = configured \cup {<<rn, "setLevel DEBUG">>}
                \cup (IF largs[t].console THEN {<<rn, "StreamHandler">>} ELSE {})
                \cup (IF largs[t].file THEN {<<rn, "FileHandler">>} ELSE {})
    /\ lres' = [lres EXCEPT ![t] = InitializeResult(t, "ok")]
    /\ lpc' = [lpc EXCEPT ![t] = "idle"]
    /\ UNCHANGED <<_root_name, largs, assigns>>
    /\ UNCHANGED notLogVars

NextLog ==
    \/ \E t \in LogThreads : GetRootLogger(t)
    \/ \E t \in LogThreads : GetLogger(t)
    \/ \E t \in LogThreads : Helper(t)
    \/ \E t \in LogThreads : InitializeCall(t)
    \/ \E t \in LogThreads : InitializeTest(t)
    \/ \E t \in LogThreads : InitializeValidate(t)
    \/ \E t \in LogThreads : InitializeAssign(t)
    \/ \E t \in LogThreads : InitializeConfigure(t)

SpecLog == InitLog /\ [][NextLog]_vars

Retrievals == {"get_root_logger", "get_logger"} \cup Helpers

C19_HelpersForwardSameLevel ==
    \A t \in LogThreads :
        LET r == lres[t]
        IN (r.op \in Helpers /\ r.out = "logged") =>
               /\ r.method = r.op
               /\ r.level = MethodLevel(r.op)
               /\ r.logger = _root_name

\* What the code does: every convenience function but info forwards to the
\* method of its own name; info forwards to debug, a record at DEBUG.
HelpersForwardButInfo ==
    \A t \in LogThreads :
        LET r == lres[t]
        IN (r.op \in Helpers /\ r.out = "logged") =>
               /\ r.logger = _root_name
               /\ r.op # "info" => (r.method = r.op /\ r.level = MethodLevel(r.op))
               /\ r.op = "info" => (r.method = "debug" /\ r.level = "DEBUG")

\* ===================================================== mongoutil.autoretry
\* The methods of CollectionDescriptor and DevCollectionDescriptor wrapped by
\* autoretry, the arguments they are called with, and what an invocation of
\* the wrapped method can end with.
WrappedMethods ==
    {"find_one", "find_by_id", "insert_one", "insert_many",
     "create_index", "create_indexes", "drop", "drop_indexes"}

MaxRetryArg == 2
RetryArgs == 1..MaxRetryArg

AttemptOutcomes == {"return", "ConnectionFailure", "OtherError"}

InitRetry ==
    /\ ThreadOff /\ LogOff /\ BatchOff /\ MongoOff /\ DevOff
    /\ rpc = "idle"
    /\ rcall = NoRetryCall
    /\ attempts = <<>>
    /\ rout = NoOutcome

\* wrapped(*args, **kwargs) is called.
RetryCall ==
    /\ rpc = "idle"
    /\ rcall' \in [method : WrappedMethods, arg : RetryArgs]
    /\ rpc' = "try"
    /\ UNCHANGED <<attempts, rout>>
    /\ UNCHANGED notRetryVars

\* One invocation method(*args, **kwargs), ending with outcome o.
Invocation(o) == [method |-> rcall.method, arg |-> rcall.arg, outcome |-> o]

\* FirstAttempt with `except Exception:`: every exception is caught and the
\* method invoked again.
FirstAttempt_CatchAll ==
    /\ rpc = "try"
    /\ \E o \in AttemptOutcomes :
        /\ attempts' = Append(attempts, Invocation(o))
        /\ IF o # "return"
           THEN /\ rpc' = "except"
                /\ UNCHANGED rout
           ELSE /\ rpc' = "done"
                /\ rout' = [kind |-> o, attempt |-> Len(attempts) + 1]
    /\ UNCHANGED rcall
    /\ UNCHANGED notRetryVars

\* `try: return method(*args, **kwargs)`: the value is returned, a
\* ConnectionFailure is caught, any other exception propagates.
FirstAttempt ==
    /\ rpc = "try"
    /\ \E o \in AttemptOutcomes :
        /\ attempts' = Append(attempts, Invocation(o))
        /\ IF o = "ConnectionFailure"
           THEN /\ rpc' = "except"
                /\ UNCHANGED rout
           ELSE /\ rpc' = "done"
                /\ rout' = [kind |-> o, attempt |-> Len(attempts) + 1]
    /\ UNCHANGED rcall
    /\ UNCHANGED notRetryVars

\* SecondAttempt inside a loop: a ConnectionFailure of the retry is caught
\* and the method is invoked again.
SecondAttempt_Loop ==
    /\ rpc = "except"
    /\ \E o \in AttemptOutcomes :
        /\ attempts' = Append(attempts, Invocation(o))
        /\ IF o = "ConnectionFailure"
           THEN /\ rpc' = "except"
                /\ UNCHANGED rout
           ELSE /\ rpc' = "done"
                /\ rout' = [kind |-> o, attempt |-> Len(attempts) + 1]
    /\ UNCHANGED rcall
    /\ UNCHANGED notRetryVars

\* `except ConnectionFailure: return method(*args, **kwargs)`: whatever the
\* second invocation ends with is what the call ends with.
SecondAttempt ==
    /\ rpc = "except"
    /\ \E o \in AttemptOutcomes :
        /\ attempts' = Append(attempts, Invocation(o))
        /\ rout' = [kind |-> o, attempt |-> Len(attempts) + 1]
    /\ rpc' = "done"
    /\ UNCHANGED rcall
    /\ UNCHANGED notRetryVars

NextRetry ==
    \/ RetryCall
    \/ FirstAttempt
    \/ SecondAttempt

SpecRetry == InitRetry /\ [][NextRetry]_vars

\* C20: a wrapped method whose first attempt raises ConnectionFailure is
\* invoked a second time, once, with the same arguments; the method runs at
\* most twice per call; the call ends with what the second attempt ends
\* with: its return value, or its exception (a second ConnectionFailure
\* propagates, there is no third attempt).
C20_RetryOnceOnConnectionFailure ==
    /\ Len(attempts) <= 2
    /\ \A k \in 1..Len(attempts) :
           attempts[k].method = rcall.method /\ attempts[k].arg = rcall.arg
    /\ (Len(attempts) >= 1 /\ attempts[1].outcome = "ConnectionFailure") =>
           /\ rpc \in {"except", "done"}
           /\ rpc = "done" =>
                  /\ Len(attempts) = 2
                  /\ rout = [kind |-> attempts[2].outcome, attempt |-> 2]

\* insert_one failed with ConnectionFailure twice: the second one reached
\* the caller.
C20_Witness ==
    /\ rpc = "done"
    /\ rcall.method = "insert_one"
    /\ Len(attempts) = 2
    /\ attempts[1].outcome = "ConnectionFailure"
    /\ attempts[2].outcome = "ConnectionFailure"
    /\ rout.kind = "ConnectionFailure"

\* C21: a wrapped method whose first attempt returns normally, or raises an
\* exception other than ConnectionFailure, is invoked exactly once by the
\* call; the call ends with that return value, or with that exception,
\* unchanged, and no retry is made.
C21_NoRetryOtherwise ==
    (Len(attempts) >= 1 /\ attempts[1].outcome # "ConnectionFailure") =>
        /\ Len(attempts) = 1
        /\ rpc = "done"
        /\ rout = [kind |-> attempts[1].outcome, attempt |-> 1]
        /\ attempts[1].method = rcall.method /\ attempts[1].arg = rcall.arg

\* find_one raised an exception that is not a ConnectionFailure: it reached
\* the caller after one invocation.
C21_Witness ==
    /\ rpc = "done"
    /\ rcall.method = "find_one"
    /\ Len(attempts) = 1
    /\ attempts[1].outcome = "OtherError"
    /\ rout.kind = "OtherError"

\* ======================================================= mongoutil's caches
\* maxsize of the lru_cache of get_client, get_database and get_collection.
ClientCacheSize == 3
DatabaseCacheSize == 9
CollectionCacheSize == 27

\* Distinct database and collection keys a run can request beyond the
\* capacity of the cache.
ExtraKeys == 1

\* The keys: (url, port) pairs, here four numbered hosts, one more than the
\* client cache holds; (url, port, database name); (url, port, database
\* name, collection name).
HostOf(i) == 1 + (i % 2)
ClientKeys == {<<1>>, <<2>>, <<3>>, <<4>>}
DatabaseKey(i) == <<HostOf(i), i>>
CollectionKey(i) == <<HostOf(i), 1 + (i % 3), i>>
NumDatabaseKeys == DatabaseCacheSize + ExtraKeys
NumCollectionKeys == CollectionCacheSize + ExtraKeys

CacheSize(fn) ==
    CASE fn = "get_client" -> ClientCacheSize
      [] fn = "get_database" -> DatabaseCacheSize
      [] fn = "get_collection" -> CollectionCacheSize

\* functools.lru_cache: the entry of a key (0: none), a hit moves the entry
\* to the most recent end, a miss stores the result and, when the cache is
\* full, drops the least recently used entry.
Find(cache, key) ==
    IF \E i \in 1..Len(cache) : cache[i].key = key
    THEN CHOOSE i \in 1..Len(cache) : cache[i].key = key
    ELSE 0

LruHit(cache, i) ==
    SubSeq(cache, 1, i - 1) \o SubSeq(cache, i + 1, Len(cache)) \o <<cache[i]>>

\* LruStore of a cache that holds one entry fewer than its maxsize.
LruStore_OneFewer(cache, maxsize, key, val) ==
    IF Len(cache) >= maxsize - 1
    THEN Append(Tail(cache), [key |-> key, val |-> val])
    ELSE Append(cache, [key |-> key, val |-> val])

\* LruStore of a cache that, when full, drops the entry used last.
LruStore_EvictNewest(cache, maxsize, key, val) ==
    IF Len(cache) >= maxsize
    THEN Append(SubSeq(cache, 1, Len(cache) - 1), [key |-> key, val |-> val])
    ELSE Append(cache, [key |-> key, val |-> val])

LruStore(cache, maxsize, key, val) ==
    IF Len(cache) >= maxsize
    THEN Append(Tail(cache), [key |-> key, val |-> val])
    ELSE Append(cache, [key |-> key, val |-> val])

\* The identity of the object a call makes for a key (a client, a database
\* or a collection handle): it differs from the object the last call with
\* that key returned, the only one it is compared with.
NewObject(st, fn, key) ==
    IF key \in DOMAIN st.lastval[fn] /\ st.lastval[fn][key] = 1 THEN 2 ELSE 1

\* The record of a finished call (up: the server was reachable during it),
\* and the history updated by it.
CallRecord(st, fn, key, val, executed, up) ==
    [fn |-> fn, key |-> key, val |-> val, executed |-> executed, up |-> up,
     out |-> "none",
     first |-> key \notin DOMAIN st.since[fn],
     between |-> IF key \in DOMAIN st.since[fn]
                 THEN Cardinality(st.since[fn][key]) ELSE 0,
     prev |-> IF key \in DOMAIN st.lastval[fn] THEN st.lastval[fn][key] ELSE None]

Noted(st, fn, key, val) ==
    [st EXCEPT !.since = [@ EXCEPT ![fn] =
                             [k \in DOMAIN @ \cup {key} |->
                                 IF k = key THEN {} ELSE @[k] \cup {key}]],
               !.lastval = [@ EXCEPT ![fn] =
                               [k \in DOMAIN @ \cup {key} |->
                                   IF k = key THEN val ELSE @[k]]]]

\* get_client(url, port): the cached result, or MongoClient(url, port) when
\* check_connection succeeds (`up`) and None when it raises ConnectionFailure.
GetClient(st, key, up) ==
    LET i == Find(st.cc, key)
    IN IF i # 0
       THEN [st |-> Noted([st EXCEPT !.cc = LruHit(@, i)], "get_client", key, st.cc[i].val),
             val |-> st.cc[i].val,
             calls |-> <<CallRecord(st, "get_client", key, st.cc[i].val, FALSE, up)>>]
       ELSE LET val == IF up THEN NewObject(st, "get_client", key) ELSE None
            IN [st |-> Noted([st EXCEPT !.cc = LruStore(@, ClientCacheSize, key, val)],
                             "get_client", key, val),
                val |-> val,
                calls |-> <<CallRecord(st, "get_client", key, val, TRUE, up)>>]

\* get_database(url, port, database_name): the cached result, or None when
\* get_client gives None, else the handle client[database_name].
GetDatabase(st, key, up) ==
    LET i == Find(st.dc, key)
    IN IF i # 0
       THEN [st |-> Noted([st EXCEPT !.dc = LruHit(@, i)], "get_database", key, st.dc[i].val),
             val |-> st.dc[i].val,
             calls |-> <<CallRecord(st, "get_database", key, st.dc[i].val, FALSE, up)>>]
       ELSE LET c == GetClient(st, <<key[1]>>, up)
                val == IF c.val = None THEN None ELSE NewObject(c.st, "get_database", key)
            IN [st |-> Noted([c.st EXCEPT !.dc = LruStore(@, DatabaseCacheSize, key, val)],
                             "get_database", key, val),
                val |-> val,
                calls |-> c.calls \o <<CallRecord(c.st, "get_database", key, val, TRUE, up)>>]

\* get_collection(url, port, database_name, collection_name): the cached
\* result, or None when get_database gives None, else database[collection_name].
GetCollection(st, key, up) ==
    LET i == Find(st.lc, key)
    IN IF i # 0
       THEN [st |-> Noted([st EXCEPT !.lc = LruHit(@, i)], "get_collection", key, st.lc[i].val),
             val |-> st.lc[i].val,
             calls |-> <<CallRecord(st, "get_collection", key, st.lc[i].val, FALSE, up)>>]
       ELSE LET d == GetDatabase(st, <<key[1], key[2]>>, up)
                val == IF d.val = None THEN None ELSE NewObject(d.st, "get_collection", key)
            IN [st |-> Noted([d.st EXCEPT !.lc = LruStore(@, CollectionCacheSize, key, val)],
                             "get_collection", key, val),
                val |-> val,
                calls |-> d.calls \o <<CallRecord(d.st, "get_collection", key, val, TRUE, up)>>]

\* is_connected(client): check_connection(client) is
\* client.admin.command("ismaster"); True when it returns, False when it
\* raises ConnectionFailure; with client = None the attribute access raises
\* AttributeError, which is not caught.
is_connected(client, up) ==
    IF client = None THEN "AttributeError"
    ELSE IF up THEN "True" ELSE "False"

MongoState ==
    [cc |-> client_cache, dc |-> database_cache, lc |-> collection_cache,
     since |-> since, lastval |-> lastval]

\* The call r is made: the caches and the history are what it left.
MongoDone(r) ==
    /\ client_cache' = r.st.cc
    /\ database_cache' = r.st.dc
    /\ collection_cache' = r.st.lc
    /\ since' = r.st.since
    /\ lastval' = r.st.lastval
    /\ mlast' = r.calls
    /\ UNCHANGED mfn
    /\ UNCHANGED notMongoVars

InitCache ==
    /\ ThreadOff /\ LogOff /\ RetryOff /\ BatchOff /\ DevOff
    /\ mfn \in {"get_client", "get_database", "get_collection"}
    /\ client_cache = <<>>
    /\ database_cache = <<>>
    /\ collection_cache = <<>>
    /\ since = NoKeys
    /\ lastval = NoKeys
    /\ mlast = NoMongoCall

\* get_client(url, port) is called, the server being reachable or not.
GetClientCall ==
    /\ mfn = "get_client"
    /\ \E key \in ClientKeys, up \in BOOLEAN : MongoDone(GetClient(MongoState, key, up))

\* ServerDescriptor(url, port).is_connected: is_connected(self.client), where
\* self.client is get_client(self._url, self._port).
ServerIsConnected ==
    /\ mfn = "get_client"
    /\ \E key \in ClientKeys, up \in BOOLEAN, still \in BOOLEAN :
        LET c == GetClient(MongoState, key, up)
        IN MongoDone([c EXCEPT !.calls =
                         Append(@, [fn |-> "is_connected", key |-> key, val |-> c.val,
                                    executed |-> TRUE, up |-> still,
                                    out |-> is_connected(c.val, still),
                                    first |-> FALSE, between |-> 0, prev |-> None])])

\* The keys a run of get_database or get_collection requests: the first key,
\* the key requested last, or the next key not requested so far.
ScanChoices(requested, n) ==
    {i \in 1..n : i = 1 \/ i = Cardinality(DOMAIN requested) + 1}

Latest(requested) == {k \in DOMAIN requested : requested[k] = {}}

GetDatabaseCall ==
    /\ mfn = "get_database"
    /\ \E key \in {DatabaseKey(i) : i \in ScanChoices(since.get_database, NumDatabaseKeys)}
                  \cup Latest(since.get_database), up \in BOOLEAN :
        MongoDone(GetDatabase(MongoState, key, up))

GetCollectionCall ==
    /\ mfn = "get_collection"
    /\ \E key \in {CollectionKey(i) : i \in ScanChoices(since.get_collection, NumCollectionKeys)}
                  \cup Latest(since.get_collection), up \in BOOLEAN :
        MongoDone(GetCollection(MongoState, key, up))

NextCache ==
    \/ GetClientCall
    \/ ServerIsConnected
    \/ GetDatabaseCall
    \/ GetCollectionCall

SpecCache == InitCache /\ [][NextCache]_vars

Cached == {"get_client", "get_database", "get_collection"}

\* C22: a call of get_client with a key requested before, with at most 2
\* other distinct keys requested in between, returns the instance the
\* earlier call returned, without making a client; the same for get_database
\* and get_collection with at most 8 and 26 other keys in between.
C22_CachedHandles ==
    \A j \in 1..Len(mlast) :
        LET r == mlast[j]
        IN (r.fn \in Cached /\ ~r.first /\ r.between <= CacheSize(r.fn) - 1) =>
               /\ r.val = r.prev
               /\ ~r.executed

\* get_client returned the client of an earlier call after 2 other keys.
C22_Witness ==
    \E j \in 1..Len(mlast) :
        /\ mlast[j].fn = "get_client"
        /\ ~mlast[j].first
        /\ mlast[j].between = ClientCacheSize - 1
        /\ mlast[j].val # None
        /\ mlast[j].val = mlast[j].prev
        /\ ~mlast[j].executed

\* C23: is_connected never raises: it returns True when the connection check
\* succeeds and False otherwise; ServerDescriptor.is_connected returns False,
\* and does not raise, when get_client gave None.
C23_IsConnectedNeverRaises ==
    \A j \in 1..Len(mlast) :
        mlast[j].fn = "is_connected" =>
            /\ mlast[j].out \in {"True", "False"}
            /\ mlast[j].val = None => mlast[j].out = "False"

\* What the code does: with a client, True or False; with None, the
\* AttributeError of None.admin leaves is_connected.
IsConnectedOutcome ==
    \A j \in 1..Len(mlast) :
        mlast[j].fn = "is_connected" =>
            /\ mlast[j].val # None => mlast[j].out \in {"True", "False"}
            /\ mlast[j].val = None => mlast[j].out = "AttributeError"

\* ================================================================ pyt.devutil
\* Largest `repeats` given to repeated_timed_method.
MaxRepeats == 3

\* The argument of the decorated method, and the durations
\* round(time() - start, 4) that timed_context measures.
DevArgs == {1, 2}
Durations == {0, 1}

RECURSIVE MinOf(_)
MinOf(s) == IF Len(s) = 1 THEN s[1] ELSE Min(s[1], MinOf(Tail(s)))
RECURSIVE MaxOf(_)
MaxOf(s) == IF Len(s) = 1 THEN s[1] ELSE IF s[1] > MaxOf(Tail(s)) THEN s[1] ELSE MaxOf(Tail(s))

\* The text given to printer: the header line when there is an identifier,
\* the shortest, the average (total / count), the longest and the total time.
Statistics(times, identifier) ==
    [header |-> identifier, shortest |-> MinOf(times), longest |-> MaxOf(times),
     total |-> Sum(times), count |-> Len(times)]

InitRepeated ==
    /\ ThreadOff /\ LogOff /\ RetryOff /\ BatchOff /\ MongoOff
    /\ dpc = "idle"
    /\ dcall = NoDevCall
    /\ dtimes = <<>>
    /\ druns = <<>>
    /\ dprinted = <<>>
    /\ dresult = <<>>

\* wrapped(*args, **kwargs) of a method decorated with
\* repeated_timed_method(repeats, identifier, printer): result = None,
\* times = [].
RepeatedCall ==
    /\ dpc = "idle"
    /\ dcall' \in [decorator : {"repeated_timed_method"}, repeats : 0..MaxRepeats,
                   identifier : BOOLEAN, formatter : {FALSE}, arg : DevArgs]
    /\ dpc' = "loop"
    /\ UNCHANGED <<dtimes, druns, dprinted, dresult>>
    /\ UNCHANGED notDevVars

\* One round of `for _ in range(repeats)`: the method runs inside
\* timed_context(times.append, None); when it returns its result is kept
\* and the duration appended, when it raises the exception leaves the
\* context manager before its handler is called, and the call.
RepeatedExecute ==
    /\ dpc = "loop"
    /\ Len(druns) < dcall.repeats
    /\ \E outcome \in {"return", "raise"}, d \in Durations :
        /\ druns' = Append(druns, [arg |-> dcall.arg, run |-> Len(druns) + 1,
                                   outcome |-> outcome])
        /\ IF outcome = "return"
           THEN /\ dresult' = <<[arg |-> dcall.arg, run |-> Len(druns) + 1]>>
                /\ dtimes' = Append(dtimes, d)
                /\ UNCHANGED dpc
           ELSE /\ dpc' = "raised"
                /\ UNCHANGED <<dresult, dtimes>>
    /\ UNCHANGED <<dcall, dprinted>>
    /\ UNCHANGED notDevVars

\* RepeatedReport leaving the loop after the first execution.
RepeatedReport_Early ==
    /\ dpc = "loop"
    /\ Len(druns) >= 1 \/ dcall.repeats <= 0
    /\ IF dtimes = <<>>
       THEN /\ dpc' = "ValueError"
            /\ UNCHANGED dprinted
       ELSE /\ dprinted' = Append(dprinted, Statistics(dtimes, dcall.identifier))
            /\ dpc' = "returned"
    /\ UNCHANGED <<dcall, dtimes, druns, dresult>>
    /\ UNCHANGED notDevVars

\* After the loop: the statistics are put together, printer is called with
\* them and `result` is returned; min(times) raises ValueError when the loop
\* made no round.
RepeatedReport ==
    /\ dpc = "loop"
    /\ Len(druns) >= dcall.repeats
    /\ IF dtimes = <<>>
       THEN /\ dpc' = "ValueError"
            /\ UNCHANGED dprinted
       ELSE /\ dprinted' = Append(dprinted, Statistics(dtimes, dcall.identifier))
            /\ dpc' = "returned"
    /\ UNCHANGED <<dcall, dtimes, druns, dresult>>
    /\ UNCHANGED notDevVars

NextRepeated ==
    \/ RepeatedCall
    \/ RepeatedExecute
    \/ RepeatedReport

SpecRepeated == InitRepeated /\ [][NextRepeated]_vars

RaiseValue == 2

RaiseConfigs ==
    [variant : BatchVariants, items : DispatchLists, batch_size : 1..MaxBatch,
     bad : {{}}, hang : {{}}, rbad : {{}, {RaiseValue}}, pool : {ExplicitPool}]
    \cup
    [variant : ItemVariants, items : DispatchLists, batch_size : {0},
     bad : {{}}, hang : {{}}, rbad : {{}, {RaiseValue}}, pool : {ExplicitPool}]

CallRaise(c) == CallWith(c, RaiseConfigs)

NextRaise ==
    \/ \E c \in Callers : CallRaise(c)
    \/ \E c \in Callers : Submit(c)
    \/ \E p \in PoolIds : WorkerStart(p)
    \/ \E p \in PoolIds : \E t \in running[p] : WorkerRun(p, t)
    \/ \E c \in Callers : NextResult(c)
    \/ \E c \in Callers : ResultHandlerReturn(c)

SpecRaise == Init /\ [][NextRaise]_vars

\* The units on whose results result_handler raises.
RaisingResults(c) ==
    {u \in UnitIds(c) : ResultHandlerRaises(cfg[c], Units(cfg[c])[u])}

\* The invocation on which result_handler raised is the last one, and its
\* exception is the one the call raised.
StopsAtRaisingResult ==
    \A c \in Callers : \A k \in 1..Len(delivered[c]) :
        delivered[c][k].u \in RaisingResults(c) =>
            /\ k = Len(delivered[c])
            /\ pc[c] \in {"result_handler", "raised"}
            /\ pc[c] = "raised" => error[c] = 0 - delivered[c][k].u

\* Once the call has raised, result_handler is invoked no more and the
\* invocations made stay as they are.
RaisedStepKeepsDelivered ==
    \A c \in Callers : pc[c] = "raised" => pc'[c] = "raised" /\ delivered'[c] = delivered[c]

\* C25: when result_handler raises on the result of a unit, the dispatch
\* call stops there: the exception leaves the call, result_handler is invoked
\* for no further unit, and the invocations made before stay delivered.
C25_ResultHandlerRaises == []StopsAtRaisingResult /\ [][RaisedStepKeepsDelivered]_vars

\* result_handler raised on the second of three results, after the first was
\* handled and while the pool had run the third unit's handler too.
C25_Witness ==
    /\ pc[1] = "raised"
    /\ NumUnits(1) = 3
    /\ error[1] < 0
    /\ Len(delivered[1]) = 2
    /\ \A u \in UnitIds(1) : execs[1][u] = 1

\* ------------------------------------------------------ calls come to an end
\* The steps of caller c inside a call it has made.
CallerStep(c) ==
    \/ GetDefaultPoolTest(c)
    \/ CreateDefaultPool(c)
    \/ ReturnDefaultPool(c)
    \/ Submit(c)
    \/ NextResult(c)
    \/ ResultHandlerReturn(c)
    \/ MapGet(c)

\* Fair workers whose handlers return or raise, and a calling thread that
\* keeps running: its result_handler invocations come to an end too.
FairCallSpec ==
    /\ FairSpec
    /\ \A c \in Callers : WF_vars(CallerStep(c))

InCall(c) == pc[c] \notin {"idle", "off"} \cup Ended

\* C26: with the pool's workers scheduled fairly and every handler and
\* result_handler invocation coming to an end, every dispatch call and every
\* map call made eventually returns or raises, whatever the number of
\* units, more units than workers included.
C26_CallsEnd == \A c \in Callers : InCall(c) ~> (pc[c] \in Ended)

\* A call of three units on the pool of two workers has returned after all
\* three handlers ran.
C26_Witness ==
    \E c \in Callers :
        /\ pc[c] = "returned"
        /\ pool[c] = ExplicitPool
        /\ NumUnits(c) > workers[ExplicitPool]
        /\ \A u \in UnitIds(c) : execs[c][u] = 1

\* ------------------------------------------- first calls made concurrently
\* The callers that are past get_default_pool in a call made without a pool.
GotDefaultPool ==
    {c \in Callers : cfg[c].variant # "none" /\ cfg[c].pool = None /\ pc[c] \in HasPool}

\* C27: when several threads make their first call without a pool
\* concurrently, one default pool is created and all of them work on that
\* same pool, whatever the interleaving of the test `_default_pool is None`
\* and the assignment.
C27_OneDefaultPoolConcurrently ==
    /\ Cardinality(CreatedPools) <= 1
    /\ \A c, d \in GotDefaultPool : pool[c] = pool[d]

\* ------------------------------------------ two calls at once on one pool
\* Largest number of items of each of the two concurrent calls.
SharedItems == 2

\* Caller c's items differ from each other and from the other caller's.
SharedList(c, n) == [i \in 1..n |-> SharedItems * (c - 1) + i]

SharedConfigs(c) ==
    [variant : BatchVariants, items : {SharedList(c, n) : n \in 0..SharedItems},
     batch_size : {1}, bad : {{}}, hang : {{}}, rbad : {{}}, pool : {ExplicitPool}]
    \cup
    [variant : ItemVariants, items : {SharedList(c, n) : n \in 0..SharedItems},
     batch_size : {0}, bad : {{}}, hang : {{}}, rbad : {{}}, pool : {ExplicitPool}]

CallShared(c) == CallWith(c, SharedConfigs(c))

NextShared ==
    \/ \E c \in Callers : CallShared(c)
    \/ \E c \in Callers : Submit(c)
    \/ \E p \in PoolIds : WorkerStart(p)
    \/ \E p \in PoolIds : \E t \in running[p] : WorkerRun(p, t)
    \/ \E c \in Callers : NextResult(c)
    \/ \E c \in Callers : ResultHandlerReturn(c)

SpecShared == InitConc /\ [][NextShared]_vars

\* Every result_handler invocation of call c was for a unit of c, with the
\* arguments made from that unit.
OwnResultsOnly(c) ==
    \A k \in 1..Len(delivered[c]) :
        /\ delivered[c][k].u \in UnitIds(c)
        /\ delivered[c][k].args =
               ResultArgs(cfg[c], TaskFunc(cfg[c], Units(cfg[c])[delivered[c][k].u]))

\* No unit of c was handed over twice and, when c has returned, each once.
EachUnitOnce(c) ==
    /\ \A u \in UnitIds(c) : TimesDelivered(c, u) <= 1
    /\ pc[c] = "returned" => \A u \in UnitIds(c) : TimesDelivered(c, u) = 1

\* C28: of two dispatch calls running concurrently on one pool, each one's
\* result_handler gets the results of its own units only, each unit once,
\* and an ordered call (batch_handle, batch_handle_with_batch, handle,
\* handle_with_item) gets them in its own submission order.
C28_ConcurrentCallsIsolated ==
    \A c \in Callers :
        /\ OwnResultsOnly(c)
        /\ EachUnitOnce(c)
        /\ cfg[c].variant \in OrderedNames \cup {"handle_with_item"} => InSubmissionOrder(c)

\* What holds of two concurrent calls: own results only, each unit once, and
\* the submission order in the operations that iterate pool.imap.
ConcurrentCallsOutcome ==
    \A c \in Callers :
        /\ OwnResultsOnly(c)
        /\ EachUnitOnce(c)
        /\ cfg[c].variant \in OrderedNames => InSubmissionOrder(c)

\* Both calls have units on the workers of the one pool at the same time.
BothOnThePool ==
    /\ \A c \in Callers : pc[c] \in {"next", "result_handler"}
    /\ \A c \in Callers : \E t \in running[ExplicitPool] : t.c = c
    /\ \E c \in Callers : delivered[c] # <<>>

\* ------------------------------------------- initialize called concurrently
\* Two threads, each free to call initialize.
InitLogConc ==
    /\ ThreadOff /\ RetryOff /\ BatchOff /\ MongoOff /\ DevOff
    /\ _root_name = NoName
    /\ lpc = [t \in LogThreads |-> "idle"]
    /\ largs = [t \in LogThreads |-> NoInitArgs]
    /\ lres = [t \in LogThreads |-> NoLogCall]
    /\ configured = {}
    /\ assigns = 0

\* A thread makes its one call of initialize.
InitializeCallOnce(t) ==
    /\ lres[t].op = "none"
    /\ InitializeCall(t)

NextLogConc ==
    \/ \E t \in LogThreads : InitializeCallOnce(t)
    \/ \E t \in LogThreads : InitializeTest(t)
    \/ \E t \in LogThreads : InitializeValidate(t)
    \/ \E t \in LogThreads : InitializeAssign(t)
    \/ \E t \in LogThreads : InitializeConfigure(t)

SpecLogConc == InitLogConc /\ [][NextLogConc]_vars

\* The threads whose last initialize call completed.
Completed == {t \in LogThreads : lres[t].op = "initialize" /\ lres[t].out = "ok"}

\* C29: when two threads call initialize concurrently, one call completes
\* and the other raises AlreadyInitialized: the root name is assigned once
\* and only one call configures a logger, whatever the interleaving.
C29_OneInitializeCompletes ==
    /\ assigns <= 1
    /\ Cardinality(Completed) <= 1
    /\ Cardinality({e[1] : e \in configured}) <= 1

\* ------------------------------------------------- a rejected initialize
\* The last call thread t completed was an initialize that raised ValueError.
Rejected(t) ==
    /\ lpc[t] = "idle"
    /\ lres[t].op = "initialize"
    /\ lres[t].out = "ValueError"

ValidName(name) == name # NoName /\ Len(name) > 2

\* After the rejection nothing is initialised.
RejectedLeavesUnset ==
    \A t \in LogThreads :
        Rejected(t) => _root_name = NoName /\ assigns = 0 /\ configured = {}

\* The call that thread t completes next after the rejection: a retrieval
\* raises NotInitialized, an initialize with a valid name succeeds.
AfterRejectedStep ==
    \A t \in LogThreads :
        (lres[t].op = "initialize" /\ lres[t].out = "ValueError" /\ lres'[t] # lres[t]) =>
            /\ lres'[t].op \in Retrievals => lres'[t].out = "NotInitialized"
            /\ (lres'[t].op = "initialize" /\ ValidName(lres'[t].arg)) =>
                   /\ lres'[t].out = "ok"
                   /\ _root_name' = lres'[t].arg

\* C30: an initialize call rejected with ValueError leaves the module
\* uninitialised: the root name stays unset, get_root_logger, get_logger and
\* the helpers still raise NotInitialized, and a later initialize with a
\* valid name succeeds.
C30_RejectedInitialize == []RejectedLeavesUnset /\ [][AfterRejectedStep]_vars

\* After initialize("ab") was rejected, initialize("app") has assigned the
\* root name and is about to configure its logger.
C30_Witness ==
    \E t \in LogThreads :
        /\ lres[t].op = "initialize"
        /\ lres[t].arg = "ab"
        /\ lres[t].out = "ValueError"
        /\ lpc[t] = "init_configure"
        /\ _root_name = "app"


\* C31: get_client returns None only when the connection check made for
\* that call failed: a call made while the server is reachable returns a
\* client, also when an earlier call with the same (url, port) returned None.
C31_NoneOnlyAfterFailedCheck ==
    \A j \in 1..Len(mlast) :
        mlast[j].fn = "get_client" =>
            /\ mlast[j].val = None => mlast[j].executed /\ ~mlast[j].up
            /\ mlast[j].up => mlast[j].val # None

\* What the code does: a call that runs the body returns None exactly when
\* its check fails; a call served from the cache returns what the earlier
\* call returned, None included, whatever the server's state.
GetClientOutcome ==
    \A j \in 1..Len(mlast) :
        mlast[j].fn = "get_client" =>
            /\ mlast[j].executed => (mlast[j].val = None <=> ~mlast[j].up)
            /\ ~mlast[j].executed => mlast[j].val = mlast[j].prev


\* C32: the cache of get_client never holds more than 3 entries and drops
\* the least recently used key: a get_client call for a key requested
\* before, with 3 other distinct keys requested since, makes a new
\* MongoClient and runs a new connection check; it does not return the
\* earlier instance.
C32_ClientCacheEvictsLru ==
    /\ Len(client_cache) <= ClientCacheSize
    /\ \A i, j \in 1..Len(client_cache) : client_cache[i].key = client_cache[j].key => i = j
    /\ \A j \in 1..Len(mlast) :
        LET r == mlast[j]
        IN (r.fn = "get_client" /\ ~r.first /\ r.between >= ClientCacheSize) =>
               /\ r.executed
               /\ r.val # None => r.val # r.prev
               /\ r.val = None <=> ~r.up

\* get_client made a new client for a key whose earlier client was dropped
\* after 3 other keys were requested.
C32_Witness ==
    /\ Len(client_cache) = ClientCacheSize
    /\ \E j \in 1..Len(mlast) :
        /\ mlast[j].fn = "get_client"
        /\ ~mlast[j].first
        /\ mlast[j].between = ClientCacheSize
        /\ mlast[j].executed
        /\ mlast[j].prev # None
        /\ mlast[j].val # None
        /\ mlast[j].val # mlast[j].prev


\* ------------------------------------------ timed_method and timed_context
\* Most executions of one timed method, or of one timed with block.
MaxTimedCalls == 2

Timed == {"timed_method", "timed_context"}

\* What handler is given: formatter(duration), by default the text
\* "Completed in {} seconds" with the duration in it, or the duration itself
\* when formatter is None.
Handled(formatter, duration) ==
    IF formatter
    THEN [text |-> "Completed in {} seconds", duration |-> duration]
    ELSE [text |-> "", duration |-> duration]

InitTimed ==
    /\ ThreadOff /\ LogOff /\ RetryOff /\ BatchOff /\ MongoOff
    /\ dpc = "idle"
    /\ dcall = NoDevCall
    /\ dtimes = <<>>
    /\ druns = <<>>
    /\ dprinted = <<>>
    /\ dresult = <<>>

\* A method decorated with timed_method(handler, formatter) is called, or a
\* with block of timed_context(handler, formatter) is entered: start = time().
\* Later executions are of the same method or block.
TimedCall ==
    /\ dpc \in {"idle", "returned", "raised"}
    /\ Len(druns) < MaxTimedCalls
    /\ \E dec \in Timed, fmt \in BOOLEAN, arg \in DevArgs :
        /\ dpc # "idle" => dec = dcall.decorator /\ fmt = dcall.formatter
        /\ dcall' = [decorator |-> dec, repeats |-> 1, identifier |-> FALSE,
                     formatter |-> fmt, arg |-> arg]
    /\ dpc' = "body"
    /\ dresult' = <<>>
    /\ UNCHANGED <<dtimes, druns, dprinted>>
    /\ UNCHANGED notDevVars

\* TimedBody with a timed_context that calls handler in a finally clause.
TimedBody_Finally ==
    /\ dpc = "body"
    /\ \E outcome \in {"return", "raise"}, d \in Durations :
        /\ druns' = Append(druns, [arg |-> dcall.arg, run |-> Len(druns) + 1,
                                   outcome |-> outcome])
        /\ IF outcome = "return"
           THEN /\ dpc' = "exit"
                /\ UNCHANGED <<dtimes, dprinted>>
           ELSE /\ dpc' = "raised"
                /\ dtimes' = Append(dtimes, d)
                /\ dprinted' = Append(dprinted, Handled(dcall.formatter, d))
    /\ UNCHANGED <<dcall, dresult>>
    /\ UNCHANGED notDevVars

\* The code at the yield runs: `return method(*args, **kwargs)` or the with
\* block.  When it completes the context manager is resumed; when it raises,
\* the exception is thrown into the generator at the yield, which has no
\* try, and leaves the with statement.
TimedBody ==
    /\ dpc = "body"
    /\ \E outcome \in {"return", "raise"} :
        /\ druns' = Append(druns, [arg |-> dcall.arg, run |-> Len(druns) + 1,
                                   outcome |-> outcome])
        /\ dpc' = IF outcome = "return" THEN "exit" ELSE "raised"
    /\ UNCHANGED <<dcall, dtimes, dprinted, dresult>>
    /\ UNCHANGED notDevVars

\* After the yield: the duration is rounded, handler gets formatter(duration)
\* or the duration, and the wrapper returns what the method returned.
TimedExit ==
    /\ dpc = "exit"
    /\ \E d \in Durations :
        /\ dtimes' = Append(dtimes, d)
        /\ dprinted' = Append(dprinted, Handled(dcall.formatter, d))
    /\ dresult' = <<[arg |-> druns[Len(druns)].arg, run |-> druns[Len(druns)].run]>>
    /\ dpc' = "returned"
    /\ UNCHANGED <<dcall, druns>>
    /\ UNCHANGED notDevVars

NextTimed ==
    \/ TimedCall
    \/ TimedBody
    \/ TimedExit

SpecTimed == InitTimed /\ [][NextTimed]_vars

\* The executions whose code completed.
Completions == {k \in 1..Len(druns) : druns[k].outcome = "return"}

\* C33: a method wrapped by timed_method, or code run inside timed_context,
\* has the duration handler called once per execution, after the code has
\* completed and before the wrapper returns, and the wrapper returns the
\* method's return value; when the code raises, handler is not called and
\* the exception propagates.
C33_TimedHandlerOncePerExecution ==
    dcall.decorator \in Timed =>
        /\ Len(dprinted) = Cardinality(Completions) - (IF dpc = "exit" THEN 1 ELSE 0)
        /\ Len(dtimes) = Len(dprinted)
        /\ \A k \in 1..Len(dprinted) : dprinted[k] = Handled(dcall.formatter, dtimes[k])
        /\ dpc = "returned" =>
               /\ druns[Len(druns)].outcome = "return"
               /\ dresult = <<[arg |-> dcall.arg, run |-> Len(druns)]>>
        /\ dpc = "raised" =>
               /\ druns[Len(druns)].outcome = "raise"
               /\ dresult = <<>>

\* Of two executions of a timed method the first raised and the second has
\* returned: handler was called once.
C33_Witness ==
    /\ dcall.decorator = "timed_method"
    /\ dpc = "returned"
    /\ Len(druns) = 2
    /\ druns[1].outcome = "raise"
    /\ Len(dprinted) = 1
    /\ dresult = <<[arg |-> dcall.arg, run |-> 2]>>

====
